---- MODULE Spec2Model ----
(***************************************************************************)
(* Model of the cloud_storage addon: per-file sync to the remote drive,    *)
(* reconciliation, migration between accounts, restore, file discovery,    *)
(* the OAuth token lifecycle and the retrieval endpoint's disk cache.      *)
(***************************************************************************)
EXTENDS Integers, Sequences, FiniteSets, TLC

VARIABLES
    attachments,   \* ir.attachment rows, indexed by record id
    config,        \* the active cloud_storage.config row
    drive,         \* remote files, indexed by remote file id
    folders,       \* remote folders, indexed by folder id
    last,          \* what the last finished operation did and returned
    auth,          \* cloud_storage.auth row of the token component
    now,           \* wall clock, seconds
    cache,         \* disk cache directory: remote file id -> entry
    batch,         \* last discovery call: its arguments and its result
    backoff,       \* the backoff executor: its position, attempts and sleeps
    sessions,      \* cloud_storage.sync.log rows of type session, by row id
    procs          \* the running sync entry points: position and local variables

vars == <<attachments, config, drive, folders, last, auth, now, cache, batch,
          backoff, sessions, procs>>

\* The variables of the executor and of the sync sessions.
aux == <<backoff, sessions, procs>>

(***************************************************************************)
(* Bounds of the model.                                                    *)
(***************************************************************************)
MaxFiles == 1      \* remote files created in one behaviour
MaxAtt == 1        \* ir.attachment rows created in one behaviour

(***************************************************************************)
(* Program constants.                                                      *)
(***************************************************************************)
MaxFileSize == 104857600     \* 100 * 1024 * 1024

\* Encodings of Python's None / False / '' for typed fields.
NoId == 0          \* empty cloud_file_id, folder id, auth id
NoMd5 == 0         \* md5Checksum absent
NoSize == -1       \* size absent (0 is a size the remote can report)

Min(a, b) == IF a <= b THEN a ELSE b

(***************************************************************************)
(* File contents.  A content is its leading bytes and its length; bytes    *)
(* past the head are zero, so a 100 MiB payload is a short value.          *)
(***************************************************************************)
RECURSIVE Strip(_)
Strip(h) ==
    IF h = <<>> THEN <<>>
    ELSE IF h[Len(h)] = 0 THEN Strip(SubSeq(h, 1, Len(h) - 1))
    ELSE h

Content(h, n) == [head |-> Strip(h), len |-> n]

EmptyContent == Content(<<>>, 0)

ByteAt(c, i) == IF i <= Len(c.head) THEN c.head[i] ELSE 0

\* len(content)
ContentLen(c) == c.len

RECURSIVE DigestFrom(_, _)
DigestFrom(h, i) ==
    IF i > Len(h) THEN 0 ELSE ((i * (h[i] + 1)) + (31 * DigestFrom(h, i + 1))) % 65521

\* hashlib.md5(content).hexdigest(): a digest of the whole content, never empty.
Md5(c) == 1 + (((DigestFrom(c.head, 1) * 17) + c.len) % 65521)

(***************************************************************************)
(* base64, on the sparse contents: 3 bytes <-> 4 sextets, 64 is '='.       *)
(***************************************************************************)
Pad == 64

EncGroup(b1, b2, b3) ==
    << b1 \div 4, ((b1 % 4) * 16) + (b2 \div 16), ((b2 % 16) * 4) + (b3 \div 64), b3 % 64 >>

RECURSIVE EncFrom(_, _)
EncFrom(c, i) ==
    IF i > Min(c.len, Len(c.head)) THEN <<>>
    ELSE LET rem == c.len - i + 1
             b1 == ByteAt(c, i)
             b2 == ByteAt(c, i + 1)
             b3 == ByteAt(c, i + 2)
         IN  IF rem = 1 THEN << b1 \div 4, (b1 % 4) * 16, Pad, Pad >>
             ELSE IF rem = 2
                  THEN << b1 \div 4, ((b1 % 4) * 16) + (b2 \div 16), (b2 % 16) * 4, Pad >>
                  ELSE EncGroup(b1, b2, b3) \o EncFrom(c, i + 3)

\* base64.b64encode: sx = the leading symbols, n = symbols in all, pad = '=' count.
b64encode(c) ==
    [sx |-> EncFrom(c, 1), n |-> 4 * ((c.len + 2) \div 3), pad |-> (3 - (c.len % 3)) % 3]

RECURSIVE DecFrom(_, _)
DecFrom(sx, i) ==
    IF i + 3 > Len(sx) THEN <<>>
    ELSE LET s1 == sx[i]
             s2 == sx[i + 1]
             s3 == sx[i + 2]
             s4 == sx[i + 3]
         IN  IF s3 = Pad THEN << (s1 * 4) + (s2 \div 16) >>
             ELSE IF s4 = Pad
                  THEN << (s1 * 4) + (s2 \div 16), ((s2 % 16) * 16) + (s3 \div 4) >>
                  ELSE << (s1 * 4) + (s2 \div 16), ((s2 % 16) * 16) + (s3 \div 4),
                          ((s3 % 4) * 64) + s4 >> \o DecFrom(sx, i + 4)

\* base64.b64decode raises binascii.Error on a length that is no multiple of 4.
DecodeOk(e) == e.n % 4 = 0

b64decode(e) == Content(DecFrom(e.sx, 1), (3 * (e.n \div 4)) - e.pad)

\* The datas field of a row without local payload (False).
NoData == b64encode(EmptyContent)

(***************************************************************************)
(* Payloads and names of the modelled records.  A name is its characters.  *)
(***************************************************************************)
PayloadA == Content(<<37, 80, 68, 70>>, 4)
PayloadB == Content(<<137, 80>>, 2)
PayloadBig == Content(<<37>>, MaxFileSize + 1)

NameInvoicePdf == <<"i", "n", "v", ".", "p", "d", "f">>
NameLogoPng == <<"l", "o", "g", "o", ".", "p", "n", "g">>
NameContractPdf == <<"c", "t", ".", "p", "d", "f">>

NameBigPdf == <<"b", "i", "g", ".", "p", "d", "f">>

ExtPdf == <<"p", "d", "f">>
ExtPng == <<"p", "n", "g">>

\* str.lower() on the letters.
UpperCase == <<"A", "B", "C", "D", "E", "F", "G", "H", "I", "J", "K", "L", "M",
               "N", "O", "P", "Q", "R", "S", "T", "U", "V", "W", "X", "Y", "Z">>

LowerCase == <<"a", "b", "c", "d", "e", "f", "g", "h", "i", "j", "k", "l", "m",
               "n", "o", "p", "q", "r", "s", "t", "u", "v", "w", "x", "y", "z">>

LowerChar(ch) ==
    IF \E i \in 1..Len(UpperCase) : UpperCase[i] = ch
    THEN LowerCase[CHOOSE i \in 1..Len(UpperCase) : UpperCase[i] = ch]
    ELSE ch

Lower(str) == [i \in 1..Len(str) |-> LowerChar(str[i])]

\* name.split('.')[-1]: what follows the last dot, the whole name when it has none.
LastDot(name) ==
    LET dots == {i \in 1..Len(name) : name[i] = "."}
    IN  IF dots = {} THEN 0 ELSE CHOOSE i \in dots : \A j \in dots : j <= i

SplitLast(name) == SubSeq(name, LastDot(name) + 1, Len(name))

\* file_extension = attachment.name.split('.')[-1].lower()
FileExtension(name) == Lower(SplitLast(name))

Attachment(name, model, content, status) ==
    [name |-> name, res_model |-> model, type |-> "binary",
     datas |-> b64encode(content), file_size |-> ContentLen(content),
     cloud_sync_status |-> status, cloud_file_id |-> NoId,
     cloud_md5 |-> NoMd5, cloud_size_bytes |-> NoSize, cloud_auth_id |-> NoId]

AttIds == 1..Len(attachments)

(***************************************************************************)
(* The remote.  A transfer may store a damaged copy; the remote reports    *)
(* the checksum and size of what it stored, or leaves them out.            *)
(***************************************************************************)
Damaged(c, how) ==
    CASE how = "intact" -> c
      [] how = "empty" -> EmptyContent
      [] how = "short" -> Content(SubSeq(c.head, 1, Min(Len(c.head), c.len - 1)), c.len - 1)

Damages(c) == IF c.len >= 2 THEN {"intact", "empty", "short"} ELSE {"intact", "empty"}

Metas == {"full", "size", "none"}

\* What the remote does with one upload: it fails, or stores and reports.
UploadEnvs(c) ==
    {[ok |-> FALSE, how |-> "intact", meta |-> "none"]}
    \cup {[ok |-> TRUE, how |-> h, meta |-> m] : h \in Damages(c), m \in Metas}

\* Provenance of a remote file: the file a migration copied it from, and whether
\* that migration ran with verify_integrity.
NoOrigin == [src |-> NoId, verify |-> FALSE]

RemoteFile(a, name, stored, parent, meta) ==
    [auth |-> a, name |-> name, content |-> stored, parent |-> parent, state |-> "live",
     origin |-> NoOrigin,
     md5 |-> IF meta = "full" THEN Md5(stored) ELSE NoMd5,
     size |-> IF meta = "none" THEN NoSize ELSE ContentLen(stored)]

\* The response of files().create as _upload_file_to_drive returns it:
\* 'size': int(file.get('size')) if file.get('size') else None.
DriveFileDict(id, f) == [id |-> id, md5 |-> f.md5, size |-> f.size]

Truthy(n) == n # NoSize /\ n # 0

Range(q) == {q[i] : i \in 1..Len(q)}

\* _create_drive_folder: the id of the live folder of that name under the parent
\* (any parent when none is given), or NoId.
FindFolder(fs, a, name, parent) ==
    LET hits == {i \in 1..Len(fs) : /\ fs[i].auth = a
                                    /\ fs[i].name = name
                                    /\ (parent = NoId \/ fs[i].parent = parent)}
    IN  IF hits = {} THEN NoId ELSE CHOOSE i \in hits : \A j \in hits : i <= j


(***************************************************************************)
(* Configuration: one active cloud_storage.config with one model rule.     *)
(***************************************************************************)
Rule(model, folder) ==
    [is_none |-> FALSE, model_name |-> model, drive_folder_name |-> folder]

\* file_info['model_config'] of sync_to_cloud: None.
NoRule == [is_none |-> TRUE, model_name |-> "", drive_folder_name |-> ""]

TheRule == Rule("sale.order", "Attachments")

\* config.drive_root_folder_id when no root folder is configured.
NoRootFolder == NoId

Config(replace, delete) ==
    [auth_id |-> 1, replace_local_with_cloud |-> replace,
     delete_local_after_sync |-> delete, drive_root_folder_id |-> NoRootFolder,
     extensions |-> <<ExtPdf>>]

\* What the remote does during one per-file sync: the folder lookup and the upload.
SyncEnvs(c) ==
    {[folder |-> FALSE, up |-> [ok |-> FALSE, how |-> "intact", meta |-> "none"]]}
    \cup {[folder |-> TRUE, up |-> u] : u \in UploadEnvs(c)}

Healthy(env) == env.folder /\ env.up.ok /\ env.up.how = "intact"

(***************************************************************************)
(* attachment.datas as the program reads it: a synced row reads through    *)
(* to the remote copy, any other row (or a failed download) reads the      *)
(* local payload.                                                          *)
(***************************************************************************)
ReadAuth(att) == IF att.cloud_auth_id # NoId THEN att.cloud_auth_id ELSE config.auth_id

ReadDatas(att) ==
    IF /\ att.cloud_sync_status = "synced"
       /\ att.cloud_file_id # NoId
       /\ att.cloud_file_id <= Len(drive)
       /\ drive[att.cloud_file_id].state # "deleted"
       /\ drive[att.cloud_file_id].auth = ReadAuth(att)
    THEN b64encode(drive[att.cloud_file_id].content)
    ELSE att.datas

(***************************************************************************)
(* _update_attachment_to_cloud                                             *)
(***************************************************************************)
\* update_values['datas'] of the first write: cleared when delete_local_after_sync.
DatasWritten(att, cfg) == IF cfg.delete_local_after_sync THEN NoData ELSE att.datas

\* The integrity check after the write: both checksums present and different.
Md5Mismatch(df, content) ==
    LET local_md5 == IF ContentLen(content) > 0 THEN Md5(content) ELSE NoMd5
    IN  df.md5 # NoMd5 /\ local_md5 # NoMd5 /\ df.md5 # local_md5

FileIdWrittenEmpty(df) == NoId

\* cloud_file_id of the write.
FileIdWritten(df) == df.id

UpdateAttachmentToCloud(att, df, content, cfg) ==
    LET written == [att EXCEPT !.type = "binary",
                               !.file_size = ContentLen(content),
                               !.cloud_file_id = FileIdWritten(df),
                               !.cloud_sync_status = "synced",
                               !.cloud_md5 = df.md5,
                               !.cloud_size_bytes = df.size,
                               !.cloud_auth_id = cfg.auth_id,
                               !.datas = DatasWritten(att, cfg)]
    IN  IF cfg.delete_local_after_sync /\ Md5Mismatch(df, content)
        THEN [written EXCEPT !.cloud_sync_status = "error"]
        ELSE written

(***************************************************************************)
(* _create_drive_folder and _upload_file_to_drive                          *)
(***************************************************************************)
\* [ok, id, folders, calls]: the folder found or created, or the raised error.
CreateDriveFolder(fs, a, name, parent, ok) ==
    IF ~ok THEN [ok |-> FALSE, id |-> NoId, folders |-> fs, calls |-> {"files.list"}]
    ELSE LET found == FindFolder(fs, a, name, parent)
         IN  IF found # NoId
             THEN [ok |-> TRUE, id |-> found, folders |-> fs, calls |-> {"files.list"}]
             ELSE [ok |-> TRUE, id |-> Len(fs) + 1,
                   folders |-> Append(fs, [auth |-> a, name |-> name, parent |-> parent]),
                   calls |-> {"files.list", "folders.create"}]

\* [ok, file, drive]: the remote after files().create, and the returned dict.
UploadFileToDrive(drv, a, content, name, folder, up) ==
    IF ~up.ok THEN [ok |-> FALSE, file |-> DriveFileDict(NoId, RemoteFile(a, name, content, folder, "none")),
                    drive |-> drv]
    ELSE LET f == RemoteFile(a, name, Damaged(content, up.how), folder, up.meta)
         IN  [ok |-> TRUE, file |-> DriveFileDict(Len(drv) + 1, f), drive |-> Append(drv, f)]

(***************************************************************************)
(* _sync_file and _sync_file_automatic.  The result is the returned        *)
(* status ("raised" when the exception leaves the function), the remote    *)
(* calls made, the remote file created and the new state.                  *)
(***************************************************************************)
Outcome(status, calls, file, att, drv, fs) ==
    [status |-> status, calls |-> calls, file |-> file, att |-> att, drive |-> drv,
     folders |-> fs]

TooLargeOffByOne(att) == att.file_size > MaxFileSize + 1

\* The size guard: file_size > max_file_size.
TooLarge(att) == att.file_size > MaxFileSize

\* if config.replace_local_with_cloud: self._update_attachment_to_cloud(...)
AfterUpload(att, df, content, cfg) ==
    IF cfg.replace_local_with_cloud THEN UpdateAttachmentToCloud(att, df, content, cfg)
    ELSE att

\* The part both functions share from the folder lookup on.
FolderUploadUpdate(att, rule, cfg, env, content) ==
    LET fold == IF rule.drive_folder_name # ""
                THEN CreateDriveFolder(folders, cfg.auth_id, rule.drive_folder_name,
                                       cfg.drive_root_folder_id, env.folder)
                ELSE [ok |-> TRUE, id |-> NoId, folders |-> folders, calls |-> {}]
    IN  IF ~fold.ok THEN Outcome("error", fold.calls, NoId, att, drive, folders)
        ELSE LET up == UploadFileToDrive(drive, cfg.auth_id, content, att.name, fold.id, env.up)
                 calls == fold.calls \cup {"files.create"}
             IN  IF ~up.ok THEN Outcome("error", calls, NoId, att, drive, fold.folders)
                 ELSE Outcome("success", calls, up.file.id,
                              AfterUpload(att, up.file, content, cfg), up.drive, fold.folders)

\* A per-file sync that lets the missing payload raise instead of returning an error.
SyncFileUnguarded(att, rule, cfg, env) ==
    IF ReadDatas(att) = NoData THEN Outcome("raised", {}, NoId, att, drive, folders)
    ELSE FolderUploadUpdate(att, rule, cfg, env, b64decode(ReadDatas(att)))

SyncFile(att, rule, cfg, env) ==
    LET datas == ReadDatas(att)
    IN  IF datas = NoData THEN Outcome("error", {}, NoId, att, drive, folders)
        ELSE IF TooLarge(att) THEN Outcome("error", {}, NoId, att, drive, folders)
        ELSE IF ~DecodeOk(datas) THEN Outcome("error", {}, NoId, att, drive, folders)
        ELSE IF rule.is_none THEN Outcome("raised", {}, NoId, att, drive, folders)
        ELSE FolderUploadUpdate(att, rule, cfg, env, b64decode(datas))

SyncFileAutomatic(att, rule, cfg, env) ==
    LET datas == ReadDatas(att)
    IN  IF datas = NoData THEN Outcome("error", {}, NoId, att, drive, folders)
        ELSE IF TooLarge(att) THEN Outcome("error", {}, NoId, att, drive, folders)
        ELSE IF ~DecodeOk(datas) THEN Outcome("error", {}, NoId, att, drive, folders)
        ELSE FolderUploadUpdate(att, rule, cfg, env, b64decode(datas))

(***************************************************************************)
(* reconcile_cloud_references                                              *)
(***************************************************************************)
\* files().get through the service of account a: the file must belong to the
\* account and not be deleted (a trashed file is still returned).
Gettable(drv, a, id) ==
    id # NoId /\ id <= Len(drv) /\ drv[id].auth = a /\ drv[id].state # "deleted"

ReconcileOne(att, cfg, netOk) ==
    IF ~(att.cloud_sync_status \in {"synced", "error"} /\ att.cloud_file_id # NoId) THEN att
    ELSE IF ~netOk \/ ~Gettable(drive, cfg.auth_id, att.cloud_file_id)
         THEN [att EXCEPT !.cloud_sync_status = "error"]
    ELSE LET meta == drive[att.cloud_file_id]
         IN  IF meta.state = "trashed" THEN [att EXCEPT !.cloud_sync_status = "error"]
             ELSE [att EXCEPT
                     !.cloud_md5 = IF meta.md5 # NoMd5 /\ @ # meta.md5 THEN meta.md5 ELSE @,
                     !.cloud_size_bytes =
                         IF Truthy(meta.size) /\ @ # meta.size THEN meta.size ELSE @]

(***************************************************************************)
(* _list_drive_files_in_folder: the live files of a folder of an account,  *)
(* and of its subfolders when recursive, as the metadata the remote lists. *)
(***************************************************************************)
RECURSIVE FoldersUnder(_, _, _)
FoldersUnder(fs, seen, depth) ==
    LET more == {i \in 1..Len(fs) : fs[i].parent \in seen} \ seen
    IN  IF more = {} \/ depth = 0 THEN seen ELSE FoldersUnder(fs, seen \cup more, depth - 1)

RECURSIVE SortedSeq(_)
SortedSeq(S) ==
    IF S = {} THEN <<>>
    ELSE LET m == CHOOSE x \in S : \A y \in S : x <= y IN <<m>> \o SortedSeq(S \ {m})

Meta(drv, id) == [id |-> id, name |-> drv[id].name, md5 |-> drv[id].md5, size |-> drv[id].size]

MetaSeq(drv, ids) == [i \in 1..Len(ids) |-> Meta(drv, ids[i])]

ListDriveFilesInFolder(drv, fs, a, folder, recursive) ==
    LET visit == IF recursive THEN FoldersUnder(fs, {folder}, Len(fs)) ELSE {folder}
    IN  MetaSeq(drv, SortedSeq({i \in 1..Len(drv) : /\ drv[i].auth = a
                                                    /\ drv[i].parent \in visit
                                                    /\ drv[i].state = "live"}))

\* A lookup that falls back to the newest row when no row references the file.
FindAttachmentOrNewest(atts, file_id) ==
    LET hits == {a \in 1..Len(atts) : atts[a].cloud_file_id = file_id}
    IN  IF hits = {} THEN Len(atts) ELSE CHOOSE a \in hits : \A b \in hits : b <= a

\* search([('cloud_file_id', '=', file_id)], limit=1): ir.attachment orders by id desc.
FindAttachment(atts, file_id) ==
    LET hits == {a \in 1..Len(atts) : atts[a].cloud_file_id = file_id}
    IN  IF hits = {} THEN 0 ELSE CHOOSE a \in hits : \A b \in hits : b <= a

RECURSIVE Reversed(_)
Reversed(q) == IF q = <<>> THEN <<>> ELSE Reversed(Tail(q)) \o <<Head(q)>>

FirstN(q, n) == IF n > 0 /\ Len(q) > n THEN SubSeq(q, 1, n) ELSE q

(***************************************************************************)
(* migrate_attachments_between_auth                                        *)
(***************************************************************************)
MigrateParams(src, dst, only_folder, target_folder, verify, del, mode, limit) ==
    [source |-> src, target |-> dst, only_folder_id |-> only_folder,
     target_folder_id |-> target_folder, recursive |-> TRUE, limit |-> limit,
     verify_integrity |-> verify, delete_source |-> del, delete_mode |-> mode]

\* files_to_migrate: the folder listing, or the synced rows whose file the source returns.
FilesToMigrate(atts, drv, fs, p) ==
    IF p.only_folder_id # NoId
    THEN ListDriveFilesInFolder(drv, fs, p.source, p.only_folder_id, p.recursive)
    ELSE LET rows == Reversed(SortedSeq({a \in 1..Len(atts) :
                                            /\ atts[a].cloud_sync_status = "synced"
                                            /\ atts[a].cloud_file_id # NoId}))
             kept == SelectSeq(FirstN(rows, p.limit),
                               LAMBDA a : Gettable(drv, p.source, atts[a].cloud_file_id))
         IN  [i \in 1..Len(kept) |-> Meta(drv, atts[kept[i]].cloud_file_id)]

\* source_size = int(f.get('size')) if f.get('size') else len(content_bytes)
SourceSize(f, content) == IF f.size # NoSize THEN f.size ELSE ContentLen(content)

\* source_md5 = f.get('md5Checksum') or hashlib.md5(content_bytes).hexdigest()
SourceMd5(f, content) == IF f.md5 # NoMd5 THEN f.md5 ELSE Md5(content)

\* The verification's condition for "failed".
VerificationFailed(df, source_md5, source_size) ==
    \/ (df.md5 # NoMd5 /\ source_md5 # NoMd5 /\ df.md5 # source_md5)
    \/ (Truthy(df.size) /\ Truthy(source_size) /\ df.size # source_size)

\* The remote after the source copy is deleted or trashed (a failure is swallowed).
DeleteSource(drv, id, mode, ok) ==
    IF ~ok THEN drv
    ELSE [drv EXCEPT ![id].state = IF mode = "delete" THEN "deleted" ELSE "trashed"]

\* Whether the run deletes the source of a file it uploaded (verification passed or skipped).
DeletesSource(p, failed) == p.delete_source /\ ~(p.verify_integrity /\ failed)

\* One iteration of the loop over files_to_migrate.  st = [atts, drive, migrated, report].
MigrateOne(f, env, p, st) ==
    LET a == FindAttachment(st.atts, f.id)
        skip(why) == [st EXCEPT !.report = Append(@, [src |-> f.id, dst |-> NoId, att |-> a,
                                                       what |-> why, before |-> "live"])]
    IN  IF a = 0 THEN skip("unmatched")
        ELSE IF ~env.download THEN skip("error")
        ELSE LET content == st.drive[f.id].content
                 up == UploadFileToDrive(st.drive, p.target, content, st.atts[a].name,
                                         p.target_folder_id, env.up)
             IN  IF ~up.ok THEN skip("error")
                 ELSE LET df == up.file
                          written == [st.atts[a] EXCEPT !.cloud_file_id = df.id,
                                                        !.cloud_md5 = df.md5,
                                                        !.cloud_size_bytes = df.size,
                                                        !.cloud_sync_status = "synced",
                                                        !.cloud_auth_id = p.target]
                          failed == VerificationFailed(df, SourceMd5(f, content),
                                                       SourceSize(f, content))
                          del == DeletesSource(p, failed)
                      IN  [atts |-> [st.atts EXCEPT ![a] = written],
                           drive |-> LET copied == [up.drive EXCEPT ![df.id].origin =
                                                       [src |-> f.id, verify |-> p.verify_integrity]]
                                     IN  IF del
                                         THEN DeleteSource(copied, f.id, p.delete_mode, env.del)
                                         ELSE copied,
                           migrated |-> st.migrated + 1,
                           report |-> Append(st.report,
                                             [src |-> f.id, dst |-> df.id, att |-> a,
                                              what |-> IF p.verify_integrity /\ failed
                                                       THEN "failed" ELSE "migrated",
                                              before |-> st.drive[f.id].state])]

RECURSIVE MigrateLoop(_, _, _, _, _)
MigrateLoop(queue, i, envs, p, st) ==
    IF i > Len(queue) THEN st
    ELSE LET nxt == MigrateOne(queue[i], envs[i], p, st)
         IN  IF p.limit > 0 /\ nxt.migrated > st.migrated /\ nxt.migrated >= p.limit
             THEN nxt
             ELSE MigrateLoop(queue, i + 1, envs, p, nxt)

\* What the remote does for one migrated file.
MigrateEnvs(c) ==
    {[download |-> FALSE, up |-> [ok |-> FALSE, how |-> "intact", meta |-> "none"], del |-> TRUE]}
    \cup {[download |-> TRUE, up |-> u, del |-> TRUE] : u \in UploadEnvs(c)}
    \cup {[download |-> TRUE, up |-> [ok |-> TRUE, how |-> "intact", meta |-> "full"],
           del |-> FALSE]}

(***************************************************************************)
(* restore_local_from_drive_folder                                         *)
(***************************************************************************)
RestoreParams(a, folder, link, model, limit) ==
    [auth |-> a, folder_id |-> folder, recursive |-> TRUE, link_existing |-> link,
     default_res_model |-> model, limit |-> limit]

\* One iteration of the loop over the folder's files.  st = [atts, restored, done]:
\* the rows, the counter, and the ids of the files restored so far.
RestoreOne(f, downloadOk, p, st) ==
    IF ~downloadOk THEN st
    ELSE LET b64 == b64encode(drive[f.id].content)
             a == IF p.link_existing THEN FindAttachment(st.atts, f.id) ELSE 0
         IN  IF a # 0
             THEN [atts |-> [st.atts EXCEPT ![a].type = "binary", ![a].datas = b64],
                   restored |-> st.restored + 1, done |-> st.done \cup {f.id}]
             ELSE [atts |-> Append(st.atts,
                                   [name |-> f.name, res_model |-> p.default_res_model,
                                    type |-> "binary", datas |-> b64,
                                    file_size |-> ContentLen(drive[f.id].content),
                                    cloud_sync_status |-> "synced", cloud_file_id |-> f.id,
                                    cloud_md5 |-> NoMd5, cloud_size_bytes |-> NoSize,
                                    cloud_auth_id |-> NoId]),
                   restored |-> st.restored + 1, done |-> st.done \cup {f.id}]

RECURSIVE RestoreLoop(_, _, _, _, _)
RestoreLoop(queue, i, oks, p, st) ==
    IF i > Len(queue) THEN st
    ELSE LET nxt == RestoreOne(queue[i], oks[i], p, st)
         IN  IF p.limit > 0 /\ nxt.restored > st.restored /\ nxt.restored >= p.limit
             THEN nxt
             ELSE RestoreLoop(queue, i + 1, oks, p, nxt)

(***************************************************************************)
(* State.  last records the operation that ran last: its inputs, what it   *)
(* returned or logged, and the rows and files it touched.                  *)
(***************************************************************************)
NoAttachment == Attachment(<<>>, "", EmptyContent, "local")

Last(op, a, result, calls, file, healthy, before) ==
    [op |-> op, att |-> a, result |-> result, calls |-> calls, file |-> file,
     healthy |-> healthy, before |-> before, params |-> <<>>, report |-> <<>>]

NoLast == Last("none", 0, "none", {}, NoId, FALSE, NoAttachment)

\* A cloud_storage.auth row with its client credentials and no tokens yet.
NoAuth == [client_id |-> 1, client_secret |-> 1, access_token |-> 0, refresh_token |-> 0,
           token_expiry |-> NoSize, state |-> "draft"]

NoBatch == [args |-> <<>>, result |-> <<>>]

\* The executor before a call.
Idle == [pc |-> "idle"]

\* Two rows not yet synced, and one synced earlier into the rule's folder of account 1.
InitAttachments(cfg) ==
    << Attachment(NameInvoicePdf, "sale.order", PayloadA, "local"),
       Attachment(NameBigPdf, "sale.order", PayloadBig, "local"),
       UpdateAttachmentToCloud(Attachment(NameContractPdf, "sale.order", PayloadB, "local"),
                               [id |-> 1, md5 |-> Md5(PayloadB), size |-> ContentLen(PayloadB)],
                               PayloadB, cfg) >>

InitDrive == << RemoteFile(1, NameContractPdf, PayloadB, 2, "full") >>

InitFolders == << [auth |-> 2, name |-> "Migrated", parent |-> NoId],
                  [auth |-> 1, name |-> "Attachments", parent |-> NoId] >>

Init ==
    /\ config \in {Config(r, d) : r \in BOOLEAN, d \in BOOLEAN}
    /\ attachments = InitAttachments(config)
    /\ drive = InitDrive
    /\ folders = InitFolders
    /\ last = NoLast
    /\ auth = NoAuth
    /\ now = 0
    /\ cache = <<>>
    /\ batch = NoBatch
    /\ backoff = Idle
    /\ sessions = <<>>
    /\ procs = <<>>

\* Remote files and rows created since the initial state.
Uploads == Len(drive) - Len(InitDrive)

Created == Len(attachments) - 3

Pending(a) == attachments[a].cloud_sync_status \in {"local", "error"}

Apply(op, a, out, healthy) ==
    /\ attachments' = [attachments EXCEPT ![a] = out.att]
    /\ drive' = out.drive
    /\ folders' = out.folders
    /\ last' = Last(op, a, out.status, out.calls, out.file, healthy, attachments[a])

\* One iteration of manual_sync's loop (and of _process_sync_batch): _sync_file.
DoSyncFile(a) ==
    /\ Pending(a)
    /\ Uploads < MaxFiles
    /\ \E env \in SyncEnvs(b64decode(ReadDatas(attachments[a]))) :
          Apply("sync_file", a, SyncFile(attachments[a], TheRule, config, env), Healthy(env))
    /\ UNCHANGED <<config, auth, now, cache, batch, aux>>

\* One iteration of automatic_sync's loop: _sync_file_automatic.
DoSyncFileAutomatic(a) ==
    /\ Pending(a)
    /\ Uploads < MaxFiles
    /\ \E env \in SyncEnvs(b64decode(ReadDatas(attachments[a]))) :
          Apply("sync_file_automatic", a,
                SyncFileAutomatic(attachments[a], TheRule, config, env), Healthy(env))
    /\ UNCHANGED <<config, auth, now, cache, batch, aux>>

\* ir.attachment.sync_to_cloud
SyncToCloud(a) ==
    /\ Uploads < MaxFiles
    /\ LET att == attachments[a]
       IN  IF ReadDatas(att) = NoData
           THEN /\ last' = Last("sync_to_cloud", a, "false", {}, NoId, FALSE, att)
                /\ UNCHANGED <<attachments, drive, folders>>
           ELSE \E env \in SyncEnvs(b64decode(ReadDatas(att))) :
                   LET out == SyncFile(att, NoRule, config, env)
                       status == IF out.status = "success" THEN "synced" ELSE "error"
                   IN  Apply("sync_to_cloud", a,
                             [out EXCEPT !.att = [out.att EXCEPT !.cloud_sync_status = status]],
                             Healthy(env))
    /\ UNCHANGED <<config, auth, now, cache, batch, aux>>

\* reconcile_cloud_references: down is the row whose metadata request fails (0: none).
Reconcile ==
    /\ \E down \in {0} \cup {a \in AttIds : attachments[a].cloud_file_id # NoId} :
          /\ attachments' = [a \in AttIds |->
                                ReconcileOne(attachments[a], config, a # down)]
          /\ last' = [NoLast EXCEPT !.op = "reconcile"]
    /\ UNCHANGED <<config, drive, folders, auth, now, cache, batch, aux>>

FolderIdsOf(a) == {NoId} \cup {i \in 1..Len(folders) : folders[i].auth = a}

MigrateInputs ==
    {MigrateParams(src, dst, only, tf, verify, del, mode, limit) :
        src \in {1}, dst \in {2}, only \in FolderIdsOf(1), tf \in FolderIdsOf(2) \ {NoId},
        verify \in BOOLEAN, del \in BOOLEAN, mode \in {"trash"}, limit \in {0}}
    \cup
    {MigrateParams(1, 2, NoId, NoId, TRUE, TRUE, "delete", 1),
     MigrateParams(2, 1, NoId, NoId, TRUE, TRUE, "delete", 0)}

\* The inputs of a migration that last keeps.
Observed(p) == [verify_integrity |-> p.verify_integrity, delete_source |-> p.delete_source,
                delete_mode |-> p.delete_mode]

\* Account 1 to the "Migrated" folder of account 2, verified, source trashed.
DefaultMigrate == MigrateParams(1, 2, NoId, 1, TRUE, TRUE, "trash", 0)

\* No row references the remote file.
Unreferenced(atts, file_id) == \A a \in 1..Len(atts) : atts[a].cloud_file_id # file_id

\* The files of a queue that some row references: the ones a run can upload.
Referenced(queue) == SelectSeq(queue, LAMBDA f : ~Unreferenced(attachments, f.id))

EnvsFor(queue) ==
    {envs \in [1..Len(queue) -> UNION {MigrateEnvs(drive[f.id].content) : f \in Range(queue)}] :
        \A i \in 1..Len(queue) : envs[i] \in MigrateEnvs(drive[queue[i].id].content)}

Migrate(p) ==
    LET queue == FilesToMigrate(attachments, drive, folders, p)
    IN  /\ queue # <<>>
        /\ Uploads + Len(Referenced(queue)) <= MaxFiles
        /\ \E envs \in EnvsFor(queue) :
              LET st == MigrateLoop(queue, 1, envs, p,
                                    [atts |-> attachments, drive |-> drive, migrated |-> 0,
                                     report |-> <<>>])
              IN  /\ attachments' = st.atts
                  /\ drive' = st.drive
                  /\ last' = [NoLast EXCEPT !.op = "migrate", !.result = st.migrated,
                                            !.params = Observed(p), !.report = st.report]
        /\ UNCHANGED <<config, folders, auth, now, cache, batch, aux>>

RestoreInputs ==
    {RestoreParams(a, folder, link, "", limit) :
        a \in {1, 2}, folder \in 1..Len(folders), link \in BOOLEAN, limit \in {0}}
    \cup {RestoreParams(1, 2, TRUE, "", 1)}

\* The "Migrated" folder of account 2 back into the rows that reference its files.
DefaultRestore == RestoreParams(2, 1, TRUE, "", 0)

Restore(p) ==
    LET queue == ListDriveFilesInFolder(drive, folders, p.auth, p.folder_id, p.recursive)
    IN  /\ folders[p.folder_id].auth = p.auth
        /\ queue # <<>>
        /\ Created + Len(queue) <= MaxAtt
        /\ \E oks \in [1..Len(queue) -> BOOLEAN] :
              LET st == RestoreLoop(queue, 1, oks, p,
                                    [atts |-> attachments, restored |-> 0, done |-> {}])
              IN  /\ attachments' = st.atts
                  /\ last' = [NoLast EXCEPT !.op = "restore", !.result = st.restored,
                                            !.params = p,
                                            !.calls = st.done]
        /\ UNCHANGED <<config, drive, folders, auth, now, cache, batch, aux>>

Next ==
    \/ \E a \in AttIds : DoSyncFile(a)
    \/ \E a \in AttIds : DoSyncFileAutomatic(a)
    \/ \E a \in AttIds : SyncToCloud(a)
    \/ Reconcile
    \/ \E p \in {DefaultMigrate} : Migrate(p)
    \/ \E p \in {DefaultRestore} : Restore(p)

Spec == Init /\ [][Next]_vars

(***************************************************************************)
(* Properties of the per-file sync.                                        *)
(***************************************************************************)
PerFileSync == {"sync_file", "sync_file_automatic"}

Uploaded == last.op \in PerFileSync /\ last.file # NoId

\* C1: with delete_local_after_sync and replace_local_with_cloud set, when the
\* uploaded copy's MD5 differs from the MD5 of the local payload the record ends
\* with status error and its local payload is still the one it had.
C1_PayloadKeptOnMismatch ==
    ( /\ Uploaded
      /\ config.delete_local_after_sync
      /\ config.replace_local_with_cloud
      /\ drive[last.file].md5 # NoMd5
      /\ drive[last.file].md5 # Md5(b64decode(last.before.datas)) )
    => /\ attachments[last.att].cloud_sync_status = "error"
       /\ attachments[last.att].datas = last.before.datas

\* C2: a per-file sync of a record with a payload, an allowed extension and a
\* size within the bound, run against a healthy remote, leaves the record synced
\* with a non-empty remote file id, whatever the configuration's flags.
C2_HealthySyncMarksSynced ==
    ( /\ last.op \in PerFileSync
      /\ last.healthy
      /\ last.before.datas # NoData
      /\ \E i \in 1..Len(config.extensions) :
            config.extensions[i] = FileExtension(last.before.name)
      /\ last.before.file_size <= MaxFileSize )
    => /\ attachments[last.att].cloud_sync_status = "synced"
       /\ attachments[last.att].cloud_file_id # NoId

\* C3: a per-file sync of a record larger than 100 MiB makes no remote call (no
\* folder lookup or creation, no upload), creates no remote file and returns error.
C3_OversizeNeverUploaded ==
    (last.op \in PerFileSync \cup {"sync_to_cloud"} /\ last.before.file_size > MaxFileSize)
    => /\ last.calls = {}
       /\ last.file = NoId
       /\ last.result = "error"
       /\ \A f \in 1..Len(drive) : drive[f].name # last.before.name

C3_Witness ==
    /\ last.op \in PerFileSync
    /\ last.before.file_size > MaxFileSize
    /\ last.before.datas # NoData
    /\ last.result = "error"

\* C4: every row with status synced has a non-empty remote file id.
C4_SyncedHasFileId ==
    \A a \in AttIds :
        attachments[a].cloud_sync_status = "synced" => attachments[a].cloud_file_id # NoId

C4_Witness ==
    /\ last.op = "restore"
    /\ last.result > 0
    /\ \E a \in AttIds :
          /\ attachments[a].cloud_sync_status = "synced"
          /\ attachments[a].cloud_auth_id = 2
          /\ attachments[a].cloud_file_id > Len(InitDrive)

\* Migration and restore over their inputs.
NextMigrate ==
    \/ \E p \in MigrateInputs : Migrate(p)
    \/ \E p \in RestoreInputs : Restore(p)

InitMigrate == Init /\ config.replace_local_with_cloud

SpecMigrate == InitMigrate /\ [][NextMigrate]_vars

(***************************************************************************)
(* Properties of migration and restore.                                    *)
(***************************************************************************)
\* What the source's listing reports, or else what its content gives.
SourceMd5Of(r) == SourceMd5(Meta(drive, r.src), drive[r.src].content)

SourceSizeOf(r) == SourceSize(Meta(drive, r.src), drive[r.src].content)

\* The target copy's reported MD5, or lacking that its reported size, differs
\* from the source's.
TargetDiffers(r) ==
    LET dst == drive[r.dst]
    IN  IF dst.md5 # NoMd5 THEN dst.md5 # SourceMd5Of(r)
        ELSE dst.size # NoSize /\ dst.size # SourceSizeOf(r)

\* C5: in a migration with verify_integrity, the source of a file whose target
\* copy reports a different MD5 (or size) is neither deleted nor trashed by the
\* run, whatever delete_source and delete_mode are.
C5_SourceKeptOnMismatch ==
    (last.op = "migrate" /\ last.params.verify_integrity)
    => \A i \in 1..Len(last.report) :
          LET r == last.report[i]
          IN  (r.dst # NoId /\ TargetDiffers(r)) => drive[r.src].state = r.before

\* C6: after a migration with verify_integrity and a restore from the target
\* folder, the payload of the row that owns a migrated file is byte-identical to
\* the content the source file had.
C6_RoundTrip ==
    (last.op = "restore" /\ last.params.link_existing)
    => \A f \in last.calls :
          LET o == drive[f].origin
              a == FindAttachment(attachments, f)
          IN  (o.src # NoId /\ o.verify /\ a # 0)
              => b64decode(attachments[a].datas) = drive[o.src].content

(***************************************************************************)
(* Strings of the retrieval endpoint: a header value is its characters.    *)
(***************************************************************************)
Digits == <<"0", "1", "2", "3", "4", "5", "6", "7", "8", "9">>

DigitOf(ch) == (CHOOSE i \in 1..Len(Digits) : Digits[i] = ch) - 1

\* What int() accepts here: a non-empty run of decimal digits.
IsDigits(str) ==
    str # <<>> /\ \A i \in 1..Len(str) : \E d \in 1..Len(Digits) : Digits[d] = str[i]

RECURSIVE StrToInt(_)
StrToInt(str) ==
    IF str = <<>> THEN 0
    ELSE (10 * StrToInt(SubSeq(str, 1, Len(str) - 1))) + DigitOf(str[Len(str)])

\* str(n) for n >= 0
RECURSIVE IntToStr(_)
IntToStr(n) ==
    IF n < 10 THEN <<Digits[n + 1]>> ELSE IntToStr(n \div 10) \o <<Digits[(n % 10) + 1]>>

StartsWith(str, prefix) ==
    Len(str) >= Len(prefix) /\ SubSeq(str, 1, Len(prefix)) = prefix

\* str.replace(sub, '')
RECURSIVE RemoveAll(_, _)
RemoveAll(str, sub) ==
    IF str = <<>> THEN <<>>
    ELSE IF StartsWith(str, sub) THEN RemoveAll(SubSeq(str, Len(sub) + 1, Len(str)), sub)
    ELSE <<Head(str)>> \o RemoveAll(Tail(str), sub)

\* str.split(sep) on a one-character separator
RECURSIVE Split(_, _)
Split(str, sep) ==
    LET at == {i \in 1..Len(str) : str[i] = sep}
    IN  IF at = {} THEN <<str>>
        ELSE LET i == CHOOSE k \in at : \A j \in at : k <= j
             IN  <<SubSeq(str, 1, i - 1)>> \o Split(SubSeq(str, i + 1, Len(str)), sep)

BytesEq == <<"b", "y", "t", "e", "s", "=">>

\* range_header_value and range_header_value.startswith('bytes=')
HasRange(header) == header # <<>> /\ StartsWith(header, BytesEq)

ParseRangeInclusive(header, file_size) ==
    LET parts == Split(RemoveAll(header, BytesEq), "-")
        bad == [ok |-> FALSE, start |-> 0, end |-> 0]
    IN  IF Len(parts) # 2 \/ ~IsDigits(parts[1]) \/ ~IsDigits(parts[2]) THEN bad
        ELSE IF StrToInt(parts[2]) > file_size \/ StrToInt(parts[1]) > StrToInt(parts[2])
        THEN bad
        ELSE [ok |-> TRUE, start |-> StrToInt(parts[1]), end |-> StrToInt(parts[2])]

\* The try block of the cache hit: [ok, start, end]; ok is FALSE where it raises.
ParseRange(header, file_size) ==
    LET parts == Split(RemoveAll(header, BytesEq), "-")
        bad == [ok |-> FALSE, start |-> 0, end |-> 0]
    IN  IF Len(parts) # 2 THEN bad
        ELSE IF ~(parts[1] = <<>> \/ IsDigits(parts[1])) THEN bad
        ELSE IF ~(parts[2] = <<>> \/ IsDigits(parts[2])) THEN bad
        ELSE LET start == IF parts[1] # <<>> THEN StrToInt(parts[1]) ELSE 0
                 end == IF parts[2] # <<>> THEN StrToInt(parts[2]) ELSE file_size - 1
             IN  IF start < 0 \/ end >= file_size \/ start > end THEN bad
                 ELSE [ok |-> TRUE, start |-> start, end |-> end]

\* f'bytes {start}-{end}/{file_size}'
ContentRange(start, end, file_size) ==
    <<"b", "y", "t", "e", "s", " ">> \o IntToStr(start) \o <<"-">> \o IntToStr(end)
        \o <<"/">> \o IntToStr(file_size)

\* fh.seek(start); fh.read(length)
Slice(c, start, length) ==
    LET n == Min(length, c.len - start)
        kept == Min(n, Len(c.head) - start)
    IN  Content([i \in 1..kept |-> ByteAt(c, start + i)], n)

(***************************************************************************)
(* The disk cache of serve_cloud_file: one entry per remote file id.       *)
(***************************************************************************)
CacheTtlSeconds == 86400     \* cloud_storage.cache_ttl_seconds

CacheMaxSizeMb == 1          \* cloud_storage.cache_max_size_mb

MaxBytes == CacheMaxSizeMb * 1024 * 1024

\* target = int(max_bytes * 0.9)
QuotaTarget == (MaxBytes * 9) \div 10

Absent == [present |-> FALSE, content |-> EmptyContent, mtime |-> 0]

\* An entry counted as expired as soon as its age reaches the TTL.
IsExpiredAtTtl(mtime) == (now - mtime) >= CacheTtlSeconds

\* _is_expired
IsExpired(mtime) == (now - mtime) > CacheTtlSeconds

Cached(c) == {f \in 1..Len(c) : c[f].present}

RECURSIVE TotalSize(_, _)
TotalSize(c, ids) ==
    IF ids = {} THEN 0
    ELSE LET f == CHOOSE x \in ids : TRUE IN c[f].content.len + TotalSize(c, ids \ {f})

RECURSIVE ByMtimeNewestFirst(_, _)
ByMtimeNewestFirst(c, ids) ==
    IF ids = {} THEN <<>>
    ELSE LET f == CHOOSE x \in ids : \A y \in ids :
                      c[x].mtime > c[y].mtime \/ (c[x].mtime = c[y].mtime /\ x <= y)
         IN  <<f>> \o ByMtimeNewestFirst(c, ids \ {f})

\* entries.sort(key=lambda x: x[0]): oldest first, equal times in listing order.
RECURSIVE ByMtime(_, _)
ByMtime(c, ids) ==
    IF ids = {} THEN <<>>
    ELSE LET f == CHOOSE x \in ids : \A y \in ids :
                      c[x].mtime < c[y].mtime \/ (c[x].mtime = c[y].mtime /\ x <= y)
         IN  <<f>> \o ByMtime(c, ids \ {f})

\* The removal loop: os.remove of the stuck entry raises and the entry is skipped.
\* [cache, failed]: the directory afterwards and the entries whose removal failed.
RECURSIVE Purge(_, _, _, _, _)
Purge(order, i, total, c, stuck) ==
    IF i > Len(order) THEN [cache |-> c, failed |-> {}]
    ELSE IF order[i] = stuck
         THEN LET rest == Purge(order, i + 1, total, c, stuck)
              IN  [rest EXCEPT !.failed = @ \cup {stuck}]
    ELSE LET left == total - c[order[i]].content.len
             gone == [c EXCEPT ![order[i]] = Absent]
         IN  IF left <= QuotaTarget THEN [cache |-> gone, failed |-> {}]
             ELSE Purge(order, i + 1, left, gone, stuck)

\* _enforce_cache_quota
EnforceCacheQuota(c, stuck) ==
    LET total == TotalSize(c, Cached(c))
    IN  IF total <= MaxBytes THEN [cache |-> c, failed |-> {}]
        ELSE Purge(ByMtime(c, Cached(c)), 1, total, c, stuck)

(***************************************************************************)
(* serve_cloud_file                                                        *)
(***************************************************************************)
Response(status, body, content_range, cache_hit) ==
    [status |-> status, body |-> body, content_range |-> content_range,
     cache_hit |-> cache_hit]

NotFound == Response(404, EmptyContent, <<>>, FALSE)

Unavailable == Response(503, EmptyContent, <<>>, FALSE)

\* The response, the cache directory afterwards, the directory as the quota
\* enforcement found it, and the entries it failed to remove.
Served(resp, c, written) ==
    [resp |-> resp, cache |-> c, written |-> written, failed |-> {}, calls |-> {}]

\* The branch of a valid, unexpired cache entry.
ServeFromCache(f, header) ==
    LET entry == cache[f]
        file_size == entry.content.len
        range == ParseRange(header, file_size)
    IN  IF HasRange(header) /\ range.ok
        THEN Served(Response(206, Slice(entry.content, range.start, range.end - range.start + 1),
                             ContentRange(range.start, range.end, file_size), TRUE),
                    cache, cache)
        ELSE Served(Response(200, entry.content, <<>>, TRUE),
                    [cache EXCEPT ![f].mtime = now], cache)

\* _http_get_drive_range as the remote answers it: the part, the whole, or an error.
DriveRange(f, header, how) ==
    LET range == ParseRange(header, drive[f].content.len)
    IN  IF how = "206" /\ range.ok
        THEN [ok |-> TRUE,
              resp |-> Response(206, Slice(drive[f].content, range.start,
                                           range.end - range.start + 1),
                                ContentRange(range.start, range.end, drive[f].content.len),
                                FALSE)]
        ELSE IF how = "200"
        THEN [ok |-> TRUE, resp |-> Response(200, drive[f].content, <<>>, FALSE)]
        ELSE [ok |-> FALSE, resp |-> Unavailable]

\* A branch that downloads and caches the whole file whatever the request.
ServeFromDriveCaching(f, header, env) ==
    Served(Response(200, drive[f].content, <<>>, FALSE),
           [cache EXCEPT ![f] = [present |-> TRUE, content |-> drive[f].content, mtime |-> now]],
           cache)

\* The branch without a valid cache entry.
ServeFromDrive(f, header, env) ==
    IF auth.state # "authorized" THEN Served(NotFound, cache, cache)
    ELSE IF ~env.service THEN Served(Unavailable, cache, cache)
    ELSE IF HasRange(header) /\ DriveRange(f, header, env.range).ok
    THEN Served(DriveRange(f, header, env.range).resp, cache, cache)
    ELSE IF ~env.download \/ ~Gettable(drive, config.auth_id, f)
    THEN Served(Unavailable, cache, cache)
    ELSE LET content == drive[f].content
             written == [cache EXCEPT ![f] = [present |-> TRUE, content |-> content,
                                              mtime |-> now]]
         IN  IF ~env.write THEN Served(Response(200, content, <<>>, FALSE), cache, cache)
             ELSE LET purged == EnforceCacheQuota(written, env.stuck)
                  IN  [Served(Response(200, content, <<>>, FALSE), purged.cache, written)
                          EXCEPT !.failed = purged.failed]

\* What the branch without a valid cache entry asks of the remote: the service
\* (with its token check), the ranged GET, the full download.
DriveCalls(f, header, env) ==
    IF auth.state # "authorized" THEN {}
    ELSE IF ~env.service THEN {"get_google_drive_service"}
    ELSE {"get_google_drive_service"}
         \cup (IF HasRange(header) THEN {"http_get_drive_range"} ELSE {})
         \cup (IF HasRange(header) /\ DriveRange(f, header, env.range).ok THEN {}
               ELSE {"download_drive_file"})

ServeCloudFile(a, allowed, header, env) ==
    IF a \notin AttIds \/ ~allowed THEN Served(NotFound, cache, cache)
    ELSE IF attachments[a].cloud_sync_status # "synced" \/ attachments[a].cloud_file_id = NoId
    THEN Served(NotFound, cache, cache)
    ELSE LET f == attachments[a].cloud_file_id
         IN  IF cache[f].present /\ ~IsExpired(cache[f].mtime)
             THEN ServeFromCache(f, header)
             ELSE [ServeFromDrive(f, header, env) EXCEPT !.calls = DriveCalls(f, header, env)]

(***************************************************************************)
(* The retrieval endpoint over a cache directory, with a clock.            *)
(***************************************************************************)
MaxTicks == 2      \* steps of the clock

PayloadMid == Content(<<1, 2>>, 400000)

PayloadWide == Content(<<3>>, 1000000)

NameMidPdf == <<"m", ".", "p", "d", "f">>

NameWidePdf == <<"w", ".", "p", "d", "f">>

SyncedRow(name, content, id) ==
    UpdateAttachmentToCloud(Attachment(name, "sale.order", content, "local"),
                            [id |-> id, md5 |-> Md5(content), size |-> ContentLen(content)],
                            content, Config(TRUE, TRUE))

InitServe ==
    /\ config = Config(TRUE, TRUE)
    /\ attachments = << SyncedRow(NameInvoicePdf, PayloadA, 1),
                        SyncedRow(NameMidPdf, PayloadMid, 2),
                        SyncedRow(NameWidePdf, PayloadWide, 3),
                        Attachment(NameLogoPng, "sale.order", PayloadB, "local") >>
    /\ drive = << RemoteFile(1, NameInvoicePdf, PayloadA, 2, "full"),
                  RemoteFile(1, NameMidPdf, PayloadMid, 2, "full"),
                  RemoteFile(1, NameWidePdf, PayloadWide, 2, "full") >>
    /\ folders = InitFolders
    /\ last = NoLast
    /\ auth \in {[NoAuth EXCEPT !.state = st, !.access_token = 1] : st \in {"authorized", "error"}}
    /\ now = 0
    /\ cache = <<Absent, Absent, Absent>>
    /\ batch = NoBatch
    /\ backoff = Idle
    /\ sessions = <<>>
    /\ procs = <<>>

Str(ch) == <<ch>>

\* Range headers a client sends: none, well-formed ones, and malformed ones.
RangeHeaders ==
    {BytesEq \o x \o <<"-">> \o y :
        x \in {<<>>, Str("1"), Str("3"), Str("x")},
        y \in {<<>>, Str("1"), Str("3"), Str("4"), Str("x")}}
    \cup {<<>>,
          <<"i", "t", "e", "m", "s", "=", "0", "-", "1">>,
          BytesEq \o <<"0", "-", "1", "-", "3">>,
          BytesEq \o <<"1">>}

PartHeader == BytesEq \o <<"1", "-", "3">>

\* What the remote, the cache directory and the service factory do during one request.
ServeEnv(service, range, download, write, stuck) ==
    [service |-> service, range |-> range, download |-> download, write |-> write,
     stuck |-> stuck]

Smooth == ServeEnv(TRUE, "error", TRUE, TRUE, 0)

\* With a Range header the remote's answer to the ranged GET varies; without one,
\* the service factory, the download, the cache write and the removals do.
ServeEnvs(header) ==
    IF HasRange(header)
    THEN {Smooth, ServeEnv(TRUE, "206", TRUE, TRUE, 0), ServeEnv(TRUE, "200", TRUE, TRUE, 0)}
    ELSE {ServeEnv(TRUE, "error", TRUE, TRUE, stuck) : stuck \in 0..Len(drive)}
         \cup {ServeEnv(FALSE, "error", TRUE, TRUE, 0), ServeEnv(TRUE, "error", FALSE, TRUE, 0),
               ServeEnv(TRUE, "error", TRUE, FALSE, 0)}

\* Whether the request reaches the remote: the row is served and has no valid cache entry.
ReachesDrive(a, allowed) ==
    /\ a \in AttIds
    /\ allowed
    /\ attachments[a].cloud_sync_status = "synced"
    /\ attachments[a].cloud_file_id # NoId
    /\ LET entry == cache[attachments[a].cloud_file_id]
       IN  ~(entry.present /\ ~IsExpired(entry.mtime))

Serve(a, allowed, header) ==
    /\ \E env \in IF ReachesDrive(a, allowed) THEN ServeEnvs(header) ELSE {Smooth} :
          LET out == ServeCloudFile(a, allowed, header, env)
          IN  /\ cache' = out.cache
              /\ last' = [op |-> "serve", att |-> a, header |-> header, resp |-> out.resp,
                          written |-> out.written, failed |-> out.failed]
    /\ UNCHANGED <<attachments, config, drive, folders, auth, now, batch, aux>>

\* The clock moves by a second or by a long step; Ticks counts its moves.
Ticks(t, long) == (t \div long) + (t % long)

Tick(d) ==
    /\ Ticks(now, CacheTtlSeconds) < MaxTicks
    /\ now' = now + d
    /\ UNCHANGED <<attachments, config, drive, folders, last, auth, cache, batch, aux>>

NextServe ==
    \/ \E header \in RangeHeaders : Serve(1, TRUE, header)
    \/ \E a \in 2..(Len(attachments) + 1), header \in {<<>>, PartHeader} : Serve(a, TRUE, header)
    \/ \E a \in AttIds : Serve(a, FALSE, <<>>)
    \/ \E d \in {1, CacheTtlSeconds} : Tick(d)

SpecServe == InitServe /\ [][NextServe]_vars

(***************************************************************************)
(* Properties of the retrieval endpoint.                                   *)
(***************************************************************************)
\* The last request was answered from the cache entry of its file.
CacheHit == last.op = "serve" /\ last.resp.cache_hit

HitEntry == cache[attachments[last.att].cloud_file_id].content

RangeOf(a, b) == BytesEq \o IntToStr(a) \o <<"-">> \o IntToStr(b)

\* A Range value that is no 'bytes=<first>-<last>' with optional decimal bounds.
Unparseable(header) ==
    \/ ~StartsWith(header, BytesEq)
    \/ \E i \in 1..Len(header) : header[i] = "x"
    \/ Cardinality({i \in 1..Len(header) : header[i] = "-"}) # 1

\* C7: from a valid cache entry of N bytes, 'bytes=a-b' with 0 <= a <= b < N gets
\* 206, the b-a+1 bytes at offsets a..b and Content-Range 'bytes a-b/N'; with
\* a > b or b >= N, or an unparseable Range, the answer is 200 with all N bytes.
C7_RangeFromCache ==
    CacheHit =>
        LET N == HitEntry.len
            resp == last.resp
        IN  /\ \A a, b \in 0..5 :
                  last.header = RangeOf(a, b) =>
                      IF a <= b /\ b < N
                      THEN /\ resp.status = 206
                           /\ resp.body.len = b - a + 1
                           /\ \A i \in 0..(b - a) :
                                 ByteAt(resp.body, i + 1) = ByteAt(HitEntry, a + i + 1)
                           /\ resp.content_range =
                                 <<"b", "y", "t", "e", "s", " ">> \o IntToStr(a) \o <<"-">>
                                     \o IntToStr(b) \o <<"/">> \o IntToStr(N)
                      ELSE resp.status = 200 /\ resp.body = HitEntry
            /\ Unparseable(last.header) => (resp.status = 200 /\ resp.body = HitEntry)

C7_Witness ==
    /\ CacheHit
    /\ last.header = RangeOf(1, 3)
    /\ HitEntry.len = 4
    /\ last.resp.status = 206

\* The last request wrote a cache entry and found the directory over the quota.
QuotaExceeded ==
    /\ last.op = "serve"
    /\ last.written # cache
    /\ TotalSize(last.written, Cached(last.written)) > MaxBytes

Removed == Cached(last.written) \ Cached(cache)

\* The total is at most 90% of the quota and no entry that remains was touched
\* before an entry that was removed.
WithinTargetOldestFirst ==
    /\ TotalSize(cache, Cached(cache)) <= QuotaTarget
    /\ \A r \in Removed, k \in Cached(cache) : last.written[r].mtime <= last.written[k].mtime

Contains(str, needle) ==
    \E i \in 0..(Len(str) - Len(needle)) : SubSeq(str, i + 1, i + Len(needle)) = needle

\* ('name', 'like', '%.%'): the ORM wraps the value in wildcards.
LikeDot(name) == Contains(name, <<".">>)

\* ('name', 'ilike', f'%.{ext}'): wrapped in wildcards too, compared without case.
ILikeDotExt(name, ext) == Contains(Lower(name), Lower(<<".">> \o ext))

InList(x, list) == \E i \in 1..Len(list) : list[i] = x

\* The search domain of the discovery.
InDomain(att, model_name, allowed_extensions) ==
    /\ att.res_model = model_name
    /\ att.type = "binary"
    /\ att.file_size > 0
    /\ att.file_size <= MaxFileSize
    /\ att.cloud_sync_status \in {"local", "error"}
    /\ att.name # <<>>
    /\ LikeDot(att.name)
    /\ (allowed_extensions = <<>>
        \/ \E i \in 1..Len(allowed_extensions) : ILikeDotExt(att.name, allowed_extensions[i]))

\* search(domain, limit=..., offset=..., order='id ASC')
Search(atts, model_name, allowed_extensions, limit, offset) ==
    LET found == SortedSeq({a \in 1..Len(atts) : InDomain(atts[a], model_name, allowed_extensions)})
    IN  SubSeq(found, offset + 1, Min(offset + limit, Len(found)))

\* The loop over the rows found: the extension is taken from the name and looked up.
KeptByLoop(att, allowed_extensions) ==
    /\ att.name # <<>>
    /\ Contains(att.name, <<".">>)
    /\ FileExtension(att.name) # <<>>
    /\ InList(FileExtension(att.name), allowed_extensions)

GetBatchFilesToSync(atts, rule, allowed_extensions, batch_size, offset) ==
    SelectSeq(Search(atts, rule.model_name, allowed_extensions, batch_size, offset),
              LAMBDA a : KeptByLoop(atts[a], allowed_extensions))

\* batch_size = limit_per_model or 500
GetFilesToSync(atts, rule, cfg, limit_per_model) ==
    IF cfg.extensions = <<>> THEN <<>>
    ELSE SelectSeq(Search(atts, rule.model_name, cfg.extensions,
                          IF limit_per_model # 0 THEN limit_per_model ELSE 500, 0),
                   LAMBDA a : KeptByLoop(atts[a], cfg.extensions))

NameNotesPdfBak == <<"n", ".", "p", "d", "f", ".", "b", "a", "k">>

NameReportPdf == <<"R", ".", "P", "D", "F">>

NameReadme == <<"R", "E", "A", "D", "M", "E">>

InitDiscovery ==
    /\ config = Config(TRUE, FALSE)
    /\ attachments = << Attachment(NameNotesPdfBak, "sale.order", PayloadB, "local"),
                        Attachment(NameInvoicePdf, "sale.order", PayloadA, "local"),
                        Attachment(NameLogoPng, "sale.order", PayloadB, "local"),
                        Attachment(NameReportPdf, "sale.order", PayloadA, "error"),
                        Attachment(NameBigPdf, "sale.order", PayloadBig, "local"),
                        Attachment(NameReadme, "sale.order", PayloadA, "local"),
                        Attachment(NameContractPdf, "res.partner", PayloadB, "local") >>
    /\ drive = <<>>
    /\ folders = InitFolders
    /\ last = NoLast
    /\ auth = NoAuth
    /\ now = 0
    /\ cache = <<>>
    /\ batch = NoBatch
    /\ backoff = Idle
    /\ sessions = <<>>
    /\ procs = <<>>

\* One call of _get_batch_files_to_sync by complete_sync.
GetBatch(batch_size, offset) ==
    /\ batch' = [args |-> [batch_size |-> batch_size, offset |-> offset],
                 result |-> GetBatchFilesToSync(attachments, TheRule, config.extensions,
                                                batch_size, offset)]
    /\ last' = [NoLast EXCEPT !.op = "get_batch_files_to_sync"]
    /\ UNCHANGED <<attachments, config, drive, folders, auth, now, cache, aux>>

\* One call of _get_files_to_sync by manual_sync.
GetFiles ==
    /\ batch' = [args |-> [batch_size |-> 500, offset |-> 0],
                 result |-> GetFilesToSync(attachments, TheRule, config, 0)]
    /\ last' = [NoLast EXCEPT !.op = "get_files_to_sync"]
    /\ UNCHANGED <<attachments, config, drive, folders, auth, now, cache, aux>>

\* _process_sync_batch, one file of the batch at a time.
SyncBatchFile(i) ==
    /\ i <= Len(batch.result)
    /\ DoSyncFile(batch.result[i])

MaxBatch == 2      \* batch sizes and offsets asked for

NextDiscovery ==
    \/ \E batch_size \in 1..MaxBatch, offset \in 0..MaxBatch : GetBatch(batch_size, offset)
    \/ GetFiles
    \/ \E i \in 1..MaxBatch : SyncBatchFile(i)

SpecDiscovery == InitDiscovery /\ [][NextDiscovery]_vars

\* The records the contract names: owned by the rule's model, local or error,
\* 1 byte to 100 MiB, a dot in the name, the extension (without case) allowed.
Eligible(att, rule, allowed_extensions) ==
    /\ att.res_model = rule.model_name
    /\ att.cloud_sync_status \in {"local", "error"}
    /\ att.file_size >= 1
    /\ att.file_size <= MaxFileSize
    /\ \E i \in 1..Len(att.name) : att.name[i] = "."
    /\ \E i \in 1..Len(allowed_extensions) :
          Lower(allowed_extensions[i]) = Lower(SplitLast(att.name))

EligibleIds ==
    SortedSeq({a \in AttIds : Eligible(attachments[a], TheRule, config.extensions)})

\* The last operation was a discovery call, so batch is the page it returned
\* from the rows as they are now.
Discovered == last.op \in {"get_batch_files_to_sync", "get_files_to_sync"}

\* C9: a discovery batch is the page of the eligible records, in ascending
\* identifier order, that its offset and size select.
C9_BatchIsEligiblePage ==
    Discovered =>
        batch.result = SubSeq(EligibleIds, batch.args.offset + 1,
                              Min(batch.args.offset + batch.args.batch_size, Len(EligibleIds)))

(***************************************************************************)
(* The OAuth tokens of a cloud_storage.auth row.                           *)
(***************************************************************************)
RefreshLookahead == 300      \* seconds

DefaultExpiresIn == 3600     \* token_data.get('expires_in', 3600)

\* expires_in of a token response; NoSize when the response has none.
ExpiresIn(resp) == IF resp.expires_in # NoSize THEN resp.expires_in ELSE DefaultExpiresIn

TokenResponse(kind, token, refresh, expires_in) ==
    [kind |-> kind, access_token |-> token, refresh_token |-> refresh,
     expires_in |-> expires_in, error |-> "", error_description |-> <<>>]

\* A 400 response of the token endpoint: its error code and error_description.
ErrorResponse(error, error_description) ==
    [kind |-> "bad_request", access_token |-> 0, refresh_token |-> 0,
     expires_in |-> NoSize, error |-> error, error_description |-> error_description]

DescInvalidGrant == <<"I", "n", "v", "a", "l", "i", "d", "_", "g", "r", "a", "n", "t">>

DescBadRequest == <<"B", "a", "d", " ", "R", "e", "q", "u", "e", "s", "t">>

InvalidGrant == <<"i", "n", "v", "a", "l", "i", "d", "_", "g", "r", "a", "n", "t">>

\* 'invalid_grant' in error_msg.lower()
MentionsInvalidGrant(error_msg) == Contains(Lower(error_msg), InvalidGrant)

Lifetimes == {NoSize, 240, 300, 301, 600}

\* exchange_code_for_token
ExchangeCodeForToken(a, resp, t) ==
    IF resp.kind # "ok" THEN [a EXCEPT !.state = "error"]
    ELSE [a EXCEPT !.access_token = resp.access_token,
                   !.refresh_token = resp.refresh_token,
                   !.token_expiry = t + ExpiresIn(resp),
                   !.state = "authorized"]

\* refresh_access_token: [ok, auth, posted]; posted is whether the token endpoint was called.
RefreshAccessToken(a, resp, t) ==
    IF a.refresh_token = 0 \/ a.client_id = 0 \/ a.client_secret = 0
    THEN [ok |-> FALSE, auth |-> [a EXCEPT !.state = "error"], posted |-> FALSE]
    ELSE IF resp.kind = "bad_request"
    THEN [ok |-> FALSE,
          auth |-> [a EXCEPT !.state = IF MentionsInvalidGrant(resp.error_description)
                                       THEN "expired" ELSE "error"],
          posted |-> TRUE]
    ELSE IF resp.kind # "ok" \/ resp.access_token = 0
    THEN [ok |-> FALSE, auth |-> [a EXCEPT !.state = "error"], posted |-> TRUE]
    ELSE [ok |-> TRUE,
          auth |-> [a EXCEPT !.access_token = resp.access_token,
                             !.token_expiry = t + ExpiresIn(resp),
                             !.state = "authorized"],
          posted |-> TRUE]

ExpiringSoonStrict(a, t) == a.token_expiry # NoSize /\ a.token_expiry - t < RefreshLookahead

\* if self.token_expiry: ... time_until_expiry.total_seconds() <= 300
ExpiringSoon(a, t) == a.token_expiry # NoSize /\ a.token_expiry - t <= RefreshLookahead

\* _get_valid_token: [raised, token, refreshed, posted, auth]
GetValidToken(a, resp, t) ==
    IF a.access_token = 0
    THEN [raised |-> TRUE, token |-> 0, refreshed |-> FALSE, posted |-> FALSE, auth |-> a]
    ELSE IF ExpiringSoon(a, t)
    THEN LET r == RefreshAccessToken(a, resp, t)
         IN  [raised |-> ~r.ok, token |-> IF r.ok THEN r.auth.access_token ELSE 0,
              refreshed |-> TRUE, posted |-> r.posted, auth |-> r.auth]
    ELSE [raised |-> FALSE, token |-> a.access_token, refreshed |-> FALSE,
          posted |-> FALSE, auth |-> a]

ExchangeResponses ==
    {TokenResponse("ok", tok, r, e) : tok \in {0, 1}, r \in {0, 1}, e \in Lifetimes}
    \cup {TokenResponse("error", 0, 0, NoSize)}

RefreshResponses ==
    {TokenResponse("ok", tok, 0, e) : tok \in {0, 2}, e \in Lifetimes}
    \cup {ErrorResponse(e, d) : e \in {"invalid_grant", "invalid_client"},
                                 d \in {DescInvalidGrant, DescBadRequest}}
    \cup {TokenResponse(k, 0, 0, NoSize) : k \in {"server_error", "timeout"}}

InitToken ==
    /\ config = Config(TRUE, FALSE)
    /\ attachments = <<>>
    /\ drive = <<>>
    /\ folders = <<>>
    /\ last = NoLast
    /\ auth = NoAuth
    /\ now = 0
    /\ cache = <<>>
    /\ batch = NoBatch
    /\ backoff = Idle
    /\ sessions = <<>>
    /\ procs = <<>>

ExchangeCode ==
    /\ \E resp \in ExchangeResponses : auth' = ExchangeCodeForToken(auth, resp, now)
    /\ last' = [op |-> "exchange_code_for_token"]
    /\ UNCHANGED <<attachments, config, drive, folders, now, cache, batch, aux>>

CallGetValidToken ==
    /\ \E resp \in RefreshResponses :
          LET out == GetValidToken(auth, resp, now)
          IN  /\ auth' = out.auth
              /\ last' = [op |-> "get_valid_token", raised |-> out.raised, token |-> out.token,
                          refreshed |-> out.refreshed, posted |-> out.posted,
                          before |-> auth, at |-> now]
    /\ UNCHANGED <<attachments, config, drive, folders, now, cache, batch, aux>>

Elapse(d) ==
    /\ Ticks(now, RefreshLookahead) < MaxTicks
    /\ now' = now + d
    /\ UNCHANGED <<attachments, config, drive, folders, last, auth, cache, batch, aux>>

NextToken ==
    \/ ExchangeCode
    \/ CallGetValidToken
    \/ \E d \in {1, RefreshLookahead} : Elapse(d)

SpecToken == InitToken /\ [][NextToken]_vars

\* C10: a call of get_valid_token on a row with an access token refreshes exactly
\* when the stored expiry is at most 300 seconds ahead (or past); without a
\* refresh the stored token is returned and the row is unchanged.
C10_RefreshWithinLookahead ==
    (last.op = "get_valid_token" /\ last.before.access_token # 0)
    => /\ last.refreshed <=> ( /\ last.before.token_expiry # NoSize
                               /\ last.before.token_expiry <= last.at + 300 )
       /\ ~last.refreshed => ( /\ ~last.raised
                               /\ last.token = last.before.access_token
                               /\ auth = last.before )

C10_Witness ==
    /\ last.op = "get_valid_token"
    /\ last.before.access_token # 0
    /\ last.before.token_expiry = last.at + 300
    /\ last.refreshed
    /\ last.posted
    /\ ~last.raised

(***************************************************************************)
(* The four operations on a cloud_storage.auth row, in any order.          *)
(***************************************************************************)
\* get_auth_url: the row goes to pending; its tokens are not touched.
GetAuthUrl ==
    /\ auth.client_id # 0
    /\ auth' = [auth EXCEPT !.state = "pending"]
    /\ last' = [op |-> "get_auth_url"]
    /\ UNCHANGED <<attachments, config, drive, folders, now, cache, batch, aux>>

\* refresh_access_token called on its own (the service's retry, the cron, the button).
CallRefresh ==
    /\ \E resp \in RefreshResponses :
          LET r == RefreshAccessToken(auth, resp, now)
          IN  /\ auth' = r.auth
              /\ last' = [op |-> "refresh_access_token", ok |-> r.ok, posted |-> r.posted,
                          resp |-> resp, before |-> auth, at |-> now]
    /\ UNCHANGED <<attachments, config, drive, folders, now, cache, batch, aux>>

NextAuth ==
    \/ GetAuthUrl
    \/ ExchangeCode
    \/ CallRefresh
    \/ CallGetValidToken
    \/ Elapse(RefreshLookahead)

SpecAuth == InitToken /\ [][NextAuth]_vars

\* The provider answered the refresh with the OAuth error code invalid_grant.
InvalidGrantReported == last.posted /\ last.resp.kind = "bad_request" /\ last.resp.error = "invalid_grant"

\* C14: a successful refresh rewrites the access token and the expiry and
\* authorizes the row; a refresh the provider rejects with invalid_grant leaves
\* state expired, any other failed refresh leaves state error; a failed refresh
\* leaves the access token and the refresh token as they were.
C14_RefreshOutcome ==
    last.op = "refresh_access_token" =>
        /\ last.ok => /\ auth.access_token = last.resp.access_token
                      /\ auth.access_token # 0
                      /\ auth.token_expiry = last.at + ExpiresIn(last.resp)
                      /\ auth.state = "authorized"
        /\ (~last.ok /\ InvalidGrantReported) => auth.state = "expired"
        /\ (~last.ok /\ ~InvalidGrantReported) => auth.state = "error"
        /\ ~last.ok => /\ auth.access_token = last.before.access_token
                       /\ auth.refresh_token = last.before.refresh_token

\* C15: with no access token but a refresh token, and a provider that answers
\* the refresh with a token, _get_valid_token refreshes and returns the new token.
C15_RefreshesWhenAbsent ==
    ( /\ last.op = "get_valid_token"
      /\ last.before.access_token = 0
      /\ last.before.refresh_token # 0 )
    => (last.refreshed /\ (last.posted => (~last.raised /\ last.token # 0)))

\* C16: an authorized row has an access token.
C16_AuthorizedHasToken == auth.state = "authorized" => auth.access_token # 0

(***************************************************************************)
(* _execute_with_backoff.  An invocation of the wrapped function returns   *)
(* or raises; an exception is its shape and the status it carries.         *)
(***************************************************************************)
RetriableStatuses == {429, 500, 502, 503, 504}

DefaultMaxRetries == 5       \* max_retries: int = 5

BaseDelayMs == 500           \* base_delay: float = 0.5

MaxJitterMs == 300           \* random.uniform(0, 0.3)

NoStatus == -1     \* status_code = None

\* googleapiclient HttpError (exc.resp.status), requests HTTPError
\* (exc.response.status_code, response may be None), or any other exception.
HttpError(status) == [shape |-> "resp", status |-> status]

RequestsError(status) == [shape |-> "response", status |-> status]

PlainError == [shape |-> "plain", status |-> NoStatus]

StatusCodeAsRetriable(exc) == 503

\* The status the except block reads off the exception, None when it has none.
StatusCode(exc) == IF exc.shape \in {"resp", "response"} THEN exc.status ELSE NoStatus

RECURSIVE Pow2(_)
Pow2(n) == IF n = 0 THEN 1 ELSE 2 * Pow2(n - 1)

\* sleep_s = base_delay * (2 ** attempt) + random.uniform(0, 0.3), in ms
SleepMs(attempt, jitter) == (BaseDelayMs * Pow2(attempt)) + jitter

MayRetryOneLess(status_code, attempt, max_retries) ==
    status_code \in RetriableStatuses /\ attempt < max_retries - 1

\* status_code in retriable_statuses and attempt < max_retries
MayRetry(status_code, attempt, max_retries) ==
    status_code \in RetriableStatuses /\ attempt < max_retries

\* What one invocation of the wrapped function does.
Invocations ==
    {[ok |-> TRUE, exc |-> PlainError]}
    \cup {[ok |-> FALSE, exc |-> e] :
            e \in {HttpError(503), HttpError(429), HttpError(404), RequestsError(504),
                   RequestsError(NoStatus), PlainError}}

\* The call: the loop starts at attempt 0 with nothing invoked yet.
CallBackoff(max_retries) ==
    /\ backoff.pc # "running"
    /\ backoff' = [pc |-> "running", max_retries |-> max_retries, attempt |-> 0,
                   history |-> <<>>, sleeps |-> <<>>, raised |-> 0]
    /\ UNCHANGED <<attachments, config, drive, folders, last, auth, now, cache, batch,
                   sessions, procs>>

\* One pass of the loop body: func() returns, or raises and the except block
\* sleeps and continues, or re-raises.  raised is the position in history of the
\* exception that leaves the executor.
Attempt ==
    /\ backoff.pc = "running"
    /\ \E inv \in Invocations, jitter \in {0, MaxJitterMs} :
          LET history == Append(backoff.history, inv)
          IN  IF inv.ok
              THEN backoff' = [backoff EXCEPT !.pc = "returned", !.history = history]
              ELSE IF MayRetry(StatusCode(inv.exc), backoff.attempt, backoff.max_retries)
              THEN backoff' = [backoff EXCEPT
                                  !.history = history,
                                  !.sleeps = Append(@, SleepMs(backoff.attempt, jitter)),
                                  !.attempt = @ + 1]
              ELSE backoff' = [backoff EXCEPT !.pc = "raised", !.history = history,
                                              !.raised = Len(history)]
    /\ UNCHANGED <<attachments, config, drive, folders, last, auth, now, cache, batch,
                   sessions, procs>>

MaxRetriesArg == 2

NextBackoff ==
    \/ \E max_retries \in {0, MaxRetriesArg, DefaultMaxRetries} : CallBackoff(max_retries)
    \/ Attempt

SpecBackoff == InitToken /\ [][NextBackoff]_vars

(***************************************************************************)
(* Properties of the executor.                                             *)
(***************************************************************************)
Finished == backoff.pc \in {"returned", "raised"}

\* The invocations made so far that raised.
Failures == {i \in 1..Len(backoff.history) : ~backoff.history[i].ok}

\* The i-th invocation raised an HTTP-shaped exception with a retriable status.
RetriableFailure(i) ==
    LET exc == backoff.history[i].exc
    IN  exc.shape # "plain" /\ exc.status \in {429, 500, 502, 503, 504}

\* C11: while the function has raised only retriable statuses, k <= max_retries
\* of them, the executor does not give up; when it then succeeds the executor
\* has returned after k+1 invocations and exactly k sleeps, the i-th of at
\* least base_delay * 2^(i-1).
C11_ReturnsAfterKRetries ==
    LET k == Cardinality(Failures)
        n == Len(backoff.history)
    IN  ( /\ backoff.pc # "idle"
          /\ k <= backoff.max_retries
          /\ \A i \in Failures : RetriableFailure(i) )
        => /\ backoff.pc # "raised"
           /\ (n > 0 /\ backoff.history[n].ok)
                 => /\ backoff.pc = "returned"
                    /\ n = k + 1
                    /\ Len(backoff.sleeps) = k
                    /\ \A i \in 1..k : backoff.sleeps[i] >= BaseDelayMs * Pow2(i - 1)

C11_Witness ==
    /\ backoff.pc = "returned"
    /\ Len(backoff.history) = 3
    /\ backoff.history[1].exc = HttpError(503)
    /\ backoff.history[2].exc = HttpError(503)
    /\ Len(backoff.sleeps) = 2

\* C12: an exception with a non-retriable status or without one leaves the
\* executor at once, unchanged and with no further invocation (a first such
\* exception: one invocation, no sleep); when every invocation raised a
\* retriable status the executor stops after max_retries+1 invocations and
\* raises the last exception.
C12_ReraisesUnchanged ==
    LET n == Len(backoff.history)
    IN  /\ \A i \in 1..(IF backoff.pc = "idle" THEN 0 ELSE n) :
              (~backoff.history[i].ok /\ ~RetriableFailure(i))
              => /\ i = n
                 /\ backoff.pc = "raised"
                 /\ backoff.raised = i
                 /\ Len(backoff.sleeps) = i - 1
        /\ (backoff.pc = "raised" /\ RetriableFailure(backoff.raised))
              => /\ n = backoff.max_retries + 1
                 /\ backoff.raised = n
                 /\ Len(backoff.sleeps) = backoff.max_retries
                 /\ Failures = 1..n
        /\ (backoff.pc # "idle") => n <= backoff.max_retries + 1

C12_Witness ==
    /\ backoff.pc = "raised"
    /\ backoff.max_retries = DefaultMaxRetries
    /\ Len(backoff.history) = 6
    /\ RetriableFailure(6)

(***************************************************************************)
(* Discovery after a per-file sync.                                        *)
(***************************************************************************)
\* The record of the last per-file sync, when that sync returned success.
SyncedOk == last.op \in {"sync_file", "sync_file_automatic"} /\ last.result = "success"

\* What the next call of _get_batch_files_to_sync returns, first page.
SecondPass == GetBatchFilesToSync(attachments, TheRule, config.extensions, 500, 0)

\* C13: a record that a per-file sync has just synced with a success outcome
\* is not returned by the discovery pass that follows.
C13_SecondPassSkipsSynced ==
    SyncedOk => last.att \notin Range(SecondPass)

(***************************************************************************)
(* Sync sessions: the cloud_storage.sync.log rows that complete_sync and   *)
(* automatic_sync keep their totals in.  A worker is one invocation, in    *)
(* its own transaction; a row it created is seen by the other workers      *)
(* once it has committed, and is rolled back when it dies before that.     *)
(***************************************************************************)
NProcs == 2            \* workers that may run an entry point at the same time

MaxSessions == 2       \* session rows created in one behaviour

MaxProcessed == 2      \* files one invocation processes

SessionRow(sync_type, owner) ==
    [sync_type |-> sync_type, status |-> "in_progress", total_success |-> 0,
     total_errors |-> 0, total_processed |-> 0, committed |-> FALSE, owner |-> owner]

IdleProc == [pc |-> "idle", session |-> 0, success |-> 0, errors |-> 0, processed |-> 0]

\* The rows a worker's search returns for status = in_progress and the given
\* sync_type: the committed ones and its own.
VisibleInProgress(p, sync_type) ==
    {i \in 1..Len(sessions) : /\ sessions[i].sync_type = sync_type
                              /\ sessions[i].status = "in_progress"
                              /\ (sessions[i].committed \/ sessions[i].owner = p)}

\* search(..., limit=1) under _order = 'sync_date desc': the newest row.
Newest(rows) == CHOOSE i \in rows : \A j \in rows : j <= i

\* cr.commit(): the rows the worker created become durable.
Commit(rows, p) ==
    [i \in 1..Len(rows) |-> IF rows[i].owner = p THEN [rows[i] EXCEPT !.committed = TRUE]
                            ELSE rows[i]]

\* The transaction of a dead worker is rolled back: a row it created and never
\* committed is gone.
Rollback(rows, p) ==
    [i \in 1..Len(rows) |-> IF rows[i].owner = p /\ ~rows[i].committed
                            THEN [rows[i] EXCEPT !.status = "rolled_back"]
                            ELSE rows[i]]

SessionFrame == UNCHANGED <<attachments, config, drive, folders, last, auth, now, cache,
                            batch, backoff>>

\* complete_sync up to its first batch: _get_or_create_sync_session.
StartComplete(p) ==
    /\ procs[p].pc = "idle"
    /\ LET found == VisibleInProgress(p, "complete_batch")
       IN  IF found # {}
           THEN /\ sessions' = sessions
                /\ procs' = [procs EXCEPT ![p] = [IdleProc EXCEPT !.pc = "complete",
                                                                  !.session = Newest(found)]]
           ELSE /\ Len(sessions) < MaxSessions
                /\ sessions' = Append(sessions, SessionRow("complete_batch", p))
                /\ procs' = [procs EXCEPT ![p] = [IdleProc EXCEPT !.pc = "complete",
                                                                  !.session = Len(sessions) + 1]]
    /\ SessionFrame

\* An update that counts only the successes as processed.
UpdateSuccessAsProcessed(row, results) ==
    [row EXCEPT !.total_success = row.total_success + results.success,
                !.total_errors = row.total_errors + results.errors,
                !.total_processed = row.total_processed + results.success]

\* _update_sync_session_progress
UpdateSyncSessionProgress(row, results) ==
    [row EXCEPT !.total_success = row.total_success + results.success,
                !.total_errors = row.total_errors + results.errors,
                !.total_processed = row.total_processed + results.success + results.errors]

\* One turn of complete_sync's while loop: a batch is processed, the session
\* row is updated and the transaction committed.
CompleteBatch(p) ==
    /\ procs[p].pc = "complete"
    /\ \E results \in {[success |-> 1, errors |-> 0], [success |-> 0, errors |-> 1]} :
          /\ procs[p].processed < MaxProcessed
          /\ sessions[procs[p].session].total_processed <= MaxProcessed
          /\ procs' = [procs EXCEPT ![p].success = @ + results.success,
                                    ![p].errors = @ + results.errors,
                                    ![p].processed = @ + results.success + results.errors]
          /\ sessions' = Commit([sessions EXCEPT ![procs[p].session] =
                                     UpdateSyncSessionProgress(@, results)], p)
    /\ SessionFrame

\* The end of complete_sync: the session is marked completed with the counters
\* of this invocation, and the request's transaction is committed.
CompleteFinish(p) ==
    /\ procs[p].pc = "complete"
    /\ sessions' = Commit([sessions EXCEPT ![procs[p].session] =
                               [@ EXCEPT !.status = "completed",
                                         !.total_success = procs[p].success,
                                         !.total_errors = procs[p].errors,
                                         !.total_processed = procs[p].processed]], p)
    /\ procs' = [procs EXCEPT ![p] = IdleProc]
    /\ SessionFrame

\* automatic_sync up to its first model: the session row is created, with no search.
StartAutomatic(p) ==
    /\ procs[p].pc = "idle"
    /\ Len(sessions) < MaxSessions
    /\ sessions' = Append(sessions, SessionRow("automatic", p))
    /\ procs' = [procs EXCEPT ![p] = [IdleProc EXCEPT !.pc = "automatic",
                                                      !.session = Len(sessions) + 1]]
    /\ SessionFrame

\* One model of automatic_sync: its files are processed and the transaction committed.
AutomaticModel(p) ==
    /\ procs[p].pc = "automatic"
    /\ \E results \in {[success |-> 1, errors |-> 0], [success |-> 0, errors |-> 1]} :
          /\ procs[p].processed < MaxProcessed
          /\ procs' = [procs EXCEPT ![p].success = @ + results.success,
                                    ![p].errors = @ + results.errors,
                                    ![p].processed = @ + results.success + results.errors]
    /\ sessions' = Commit(sessions, p)
    /\ SessionFrame

\* The end of automatic_sync for the configuration: completed with the totals,
\* or error when the configuration's processing raised.
AutomaticFinish(p) ==
    /\ procs[p].pc = "automatic"
    /\ \E raised \in BOOLEAN :
          sessions' = Commit([sessions EXCEPT ![procs[p].session] =
                                  IF raised THEN [@ EXCEPT !.status = "error"]
                                  ELSE [@ EXCEPT !.status = "completed",
                                                 !.total_success = procs[p].success,
                                                 !.total_errors = procs[p].errors,
                                                 !.total_processed = procs[p].processed]], p)
    /\ procs' = [procs EXCEPT ![p] = IdleProc]
    /\ SessionFrame

\* The host process of a running invocation is stopped.
Kill(p) ==
    /\ procs[p].pc # "idle"
    /\ sessions' = Rollback(sessions, p)
    /\ procs' = [procs EXCEPT ![p] = IdleProc]
    /\ SessionFrame

InitSession ==
    /\ config = Config(TRUE, FALSE)
    /\ attachments = <<>>
    /\ drive = <<>>
    /\ folders = <<>>
    /\ last = NoLast
    /\ auth = NoAuth
    /\ now = 0
    /\ cache = <<>>
    /\ batch = NoBatch
    /\ backoff = Idle
    /\ sessions = <<>>
    /\ procs = [p \in 1..NProcs |-> IdleProc]

NextSession ==
    \E p \in 1..NProcs :
        \/ StartComplete(p)
        \/ CompleteBatch(p)
        \/ CompleteFinish(p)
        \/ StartAutomatic(p)
        \/ AutomaticModel(p)
        \/ AutomaticFinish(p)
        \/ Kill(p)

SpecSession == InitSession /\ [][NextSession]_vars

\* C17: no write to a session row lowers one of its totals.
C17_TotalsNeverDecrease ==
    [][\A i \in 1..Len(sessions) :
          /\ sessions'[i].total_processed >= sessions[i].total_processed
          /\ sessions'[i].total_success >= sessions[i].total_success
          /\ sessions'[i].total_errors >= sessions[i].total_errors]_vars

InProgress == {i \in 1..Len(sessions) : sessions[i].status = "in_progress"}

\* C18: the configuration never has two sessions in progress.
C18_OneSessionInProgress == Cardinality(InProgress) <= 1

(***************************************************************************)
(* The per-file loops of manual_sync, _process_sync_batch and              *)
(* automatic_sync, with the cloud_storage.sync.log rows the per-file sync  *)
(* creates.  In this part `sessions` holds those rows and `procs` the      *)
(* running loop.                                                           *)
(***************************************************************************)
MaxLogs == 3           \* log rows after which no further loop is started

LogRow(sync_type, status, a) == [sync_type |-> sync_type, status |-> status, att |-> a]

\* The rows _sync_file creates: none on its three early returns, one on
\* success, one in its exception handler (which itself raises without a rule).
SyncFileLogRows(a, att, rule, out) ==
    LET datas == ReadDatas(att)
    IN  IF datas = NoData \/ TooLarge(att) \/ ~DecodeOk(datas) \/ rule.is_none THEN <<>>
        ELSE << LogRow("manual", out.status, a) >>

\* The rows _sync_file_automatic creates: one on every path.
SyncFileAutomaticLogRows(a, att, rule, out) == << LogRow("automatic", out.status, a) >>

NoLoop == [pc |-> "idle", entry |-> "none", files |-> <<>>, i |-> 1, outcomes |-> <<>>]

\* The records an entry point hands to its loop.
FilesOf(entry) ==
    IF entry = "manual_sync" THEN GetFilesToSync(attachments, TheRule, config, 0)
    ELSE GetBatchFilesToSync(attachments, TheRule, config.extensions, 100, 0)

\* An entry point up to its loop.
StartLoop(entry) ==
    /\ procs.pc # "loop"
    /\ Len(sessions) < MaxLogs
    /\ Uploads < MaxFiles
    /\ procs' = [NoLoop EXCEPT !.pc = IF FilesOf(entry) = <<>> THEN "done" ELSE "loop",
                               !.entry = entry, !.files = FilesOf(entry)]
    /\ UNCHANGED <<attachments, config, drive, folders, last, auth, now, cache, batch,
                   backoff, sessions>>

\* What the loop does with a per-file sync that raised: manual_sync has no
\* handler around _sync_file; the other two count an error and go on.
AfterFile(entry, out, i, n) ==
    IF out.status = "raised" /\ entry = "manual_sync" THEN "aborted"
    ELSE IF i = n THEN "done" ELSE "loop"

\* One turn of the loop: the per-file sync of the next record.
LoopFile ==
    /\ procs.pc = "loop"
    /\ LET a == procs.files[procs.i]
           auto == procs.entry = "automatic_sync"
       IN  \E env \in SyncEnvs(b64decode(ReadDatas(attachments[a]))) :
              LET out == IF auto THEN SyncFileAutomatic(attachments[a], TheRule, config, env)
                         ELSE SyncFile(attachments[a], TheRule, config, env)
                  rows == IF auto
                          THEN SyncFileAutomaticLogRows(a, attachments[a], TheRule, out)
                          ELSE SyncFileLogRows(a, attachments[a], TheRule, out)
              IN  /\ Apply(IF auto THEN "sync_file_automatic" ELSE "sync_file", a, out,
                           Healthy(env))
                  /\ sessions' = sessions \o rows
                  /\ procs' = [procs EXCEPT
                                 !.pc = AfterFile(procs.entry, out, procs.i, Len(procs.files)),
                                 !.i = @ + 1,
                                 !.outcomes = Append(@, [att |-> a, status |-> out.status,
                                                         rows |-> Len(rows)])]
    /\ UNCHANGED <<config, auth, now, cache, batch, backoff>>

NameLostPdf == <<"l", "o", "s", "t", ".", "p", "d", "f">>

\* The second record has lost its payload: file_size is stored, datas reads empty.
InitBatch ==
    /\ config \in {Config(r, FALSE) : r \in BOOLEAN}
    /\ attachments = << Attachment(NameInvoicePdf, "sale.order", PayloadA, "local"),
                        [Attachment(NameLostPdf, "sale.order", PayloadA, "error")
                            EXCEPT !.datas = NoData],
                        Attachment(NameContractPdf, "sale.order", PayloadB, "local") >>
    /\ drive = InitDrive
    /\ folders = InitFolders
    /\ last = NoLast
    /\ auth = NoAuth
    /\ now = 0
    /\ cache = <<>>
    /\ batch = NoBatch
    /\ backoff = Idle
    /\ sessions = <<>>
    /\ procs = NoLoop

NextBatch ==
    \/ \E entry \in {"manual_sync", "process_sync_batch", "automatic_sync"} : StartLoop(entry)
    \/ LoopFile

SpecBatch == InitBatch /\ [][NextBatch]_vars

\* C19: every per-file sync attempt of a loop has created exactly one log row.
C19_OneLogRowPerAttempt ==
    /\ \A k \in 1..Len(procs.outcomes) : procs.outcomes[k].rows = 1
    /\ procs.pc # "idle" => Len(sessions) >= Len(procs.outcomes)

\* C20: no per-file sync raises, whatever its outcome; the loop is never
\* left early and, when it is done, has attempted every record handed to it,
\* in order.
C20_BatchNeverAborts ==
    /\ procs.pc # "aborted"
    /\ \A k \in 1..Len(procs.outcomes) :
          /\ procs.outcomes[k].status \in {"success", "error"}
          /\ procs.outcomes[k].att = procs.files[k]
    /\ procs.pc = "loop" => (Len(procs.outcomes) = procs.i - 1 /\ procs.i <= Len(procs.files))
    /\ procs.pc = "done" => Len(procs.outcomes) = Len(procs.files)

C20_Witness ==
    /\ procs.pc = "done"
    /\ procs.entry = "manual_sync"
    /\ Len(procs.files) = 3
    /\ procs.outcomes[1].status = "error"
    /\ procs.outcomes[2].status = "error"
    /\ procs.outcomes[3].status = "success"

(***************************************************************************)
(* complete_sync: the batches of one model rule, the commit after each     *)
(* batch, and the stop of the host process between two steps.  In this     *)
(* part `procs` is the running invocation with the rows as of its last     *)
(* commit, `batch` the batch in hand, and `last` what has been uploaded    *)
(* and attempted so far.                                                   *)
(***************************************************************************)
MaxRuns == 2           \* invocations of complete_sync in one behaviour

\* _count_pending_files: search_count over the discovery domain.
CountPendingFiles(atts, rule, allowed_extensions) ==
    Cardinality({a \in 1..Len(atts) : InDomain(atts[a], rule.model_name, allowed_extensions)})

\* The records of the rule that a sync has to attempt: in the domain, with an
\* allowed extension.
EligibleNow ==
    {a \in 1..Len(attachments) : /\ InDomain(attachments[a], TheRule.model_name, config.extensions)
                                 /\ KeptByLoop(attachments[a], config.extensions)}

NoRun == [pc |-> "idle", batch_size |-> 0, offset |-> 0, pending_count |-> 0,
          model_processed |-> 0, i |-> 1, saved |-> <<>>, eligible |-> {}, run |-> 0,
          healthy |-> TRUE]

NoHistory == [op |-> "complete_sync", uploads |-> <<>>, attempted |-> <<>>]

CompleteFrame == UNCHANGED <<config, auth, now, cache, backoff, sessions>>

\* complete_sync up to the while loop of the rule.
StartCompleteSync(batch_size) ==
    /\ procs.pc \in {"idle", "killed"}
    /\ procs.run < MaxRuns
    /\ LET pending_count == CountPendingFiles(attachments, TheRule, config.extensions)
       IN  procs' = [NoRun EXCEPT !.pc = IF pending_count = 0 THEN "done" ELSE "while",
                                  !.batch_size = batch_size,
                                  !.pending_count = pending_count,
                                  !.saved = attachments,
                                  !.eligible = EligibleNow,
                                  !.run = procs.run + 1]
    /\ last' = [last EXCEPT !.attempted = <<>>]
    /\ batch' = NoBatch
    /\ UNCHANGED <<attachments, drive, folders>>
    /\ CompleteFrame

\* The head of the while loop: the next batch is fetched; the rule is done
\* when the count is reached or the batch is empty.
FetchBatch ==
    /\ procs.pc = "while"
    /\ LET files == GetBatchFilesToSync(attachments, TheRule, config.extensions,
                                        procs.batch_size, procs.offset)
       IN  IF procs.model_processed < procs.pending_count /\ files # <<>>
           THEN /\ batch' = [args |-> [batch_size |-> procs.batch_size, offset |-> procs.offset],
                             result |-> files]
                /\ procs' = [procs EXCEPT !.pc = "batch", !.i = 1]
           ELSE /\ batch' = NoBatch
                /\ procs' = [procs EXCEPT !.pc = "done", !.saved = attachments]
    /\ UNCHANGED <<attachments, drive, folders, last>>
    /\ CompleteFrame

\* The remote during one per-file sync of a batch: healthy, or the folder
\* lookup fails.
RemoteEnvs(c) == {env \in SyncEnvs(c) : Healthy(env) \/ ~env.folder}

\* _process_sync_batch, one file: _sync_file on the next record of the batch.
ProcessBatchFile ==
    /\ procs.pc = "batch"
    /\ procs.i <= Len(batch.result)
    /\ LET a == batch.result[procs.i]
       IN  \E env \in RemoteEnvs(b64decode(ReadDatas(attachments[a]))) :
              LET out == SyncFile(attachments[a], TheRule, config, env)
              IN  /\ attachments' = [attachments EXCEPT ![a] = out.att]
                  /\ drive' = out.drive
                  /\ folders' = out.folders
                  /\ last' = [last EXCEPT
                                !.uploads = IF out.file # NoId THEN Append(@, a) ELSE @,
                                !.attempted = Append(@, a)]
                  /\ procs' = [procs EXCEPT !.i = @ + 1,
                                            !.healthy = @ /\ Healthy(env)]
    /\ UNCHANGED batch
    /\ CompleteFrame

\* The end of a batch: the counters advance and the transaction is committed.
EndBatch ==
    /\ procs.pc = "batch"
    /\ procs.i > Len(batch.result)
    /\ procs' = [procs EXCEPT !.pc = "while",
                              !.model_processed = @ + Len(batch.result),
                              !.offset = @ + procs.batch_size,
                              !.saved = attachments]
    /\ UNCHANGED <<attachments, drive, folders, last, batch>>
    /\ CompleteFrame

\* The host process is stopped: what the invocation wrote to the database
\* since its last commit is rolled back, what it sent to the remote stays.
KillCompleteSync ==
    /\ procs.pc \in {"while", "batch"}
    /\ procs.run < MaxRuns
    /\ attachments' = procs.saved
    /\ procs' = [procs EXCEPT !.pc = "killed"]
    /\ batch' = NoBatch
    /\ UNCHANGED <<drive, folders, last>>
    /\ CompleteFrame

NameSecondPdf == <<"b", ".", "p", "d", "f">>

InitComplete ==
    /\ config = Config(TRUE, FALSE)
    /\ attachments = << Attachment(NameInvoicePdf, "sale.order", PayloadA, "local"),
                        Attachment(NameSecondPdf, "sale.order", PayloadB, "local"),
                        Attachment(NameContractPdf, "sale.order", PayloadB, "error") >>
    /\ drive = <<>>
    /\ folders = InitFolders
    /\ last = NoHistory
    /\ auth = NoAuth
    /\ now = 0
    /\ cache = <<>>
    /\ batch = NoBatch
    /\ backoff = Idle
    /\ sessions = <<>>
    /\ procs = NoRun

NextComplete ==
    \/ \E batch_size \in 1..MaxBatch : StartCompleteSync(batch_size)
    \/ FetchBatch
    \/ ProcessBatchFile
    \/ EndBatch
    \/ KillCompleteSync

SpecComplete == InitComplete /\ [][NextComplete]_vars

\* Occurrences of a record in a sequence of records.
Times(q, a) == Cardinality({k \in 1..Len(q) : q[k] = a})

\* C21: across a stopped complete_sync and the invocation that resumes it, no
\* record is uploaded to the remote twice.
C21_NoSecondUpload == \A a \in 1..Len(attachments) : Times(last.uploads, a) <= 1

\* C27: when an invocation that met a healthy remote throughout is done, it
\* has attempted every record that was eligible at its start exactly once, and
\* none of them is left local or in error without an attempt.
C27_AllEligibleAttempted ==
    (procs.pc = "done" /\ procs.run = 1 /\ procs.healthy)
    => \A a \in procs.eligible : Times(last.attempted, a) = 1

(***************************************************************************)
(* The retrieval endpoint, request by request: what each request asked of  *)
(* the remote, the access-log rows it created, the cache entry it found.   *)
(* In this part `procs` holds, per remote file, the time its cache entry's *)
(* content was last written (NoSize: never).                               *)
(***************************************************************************)
\* cloud_storage.access.log rows of one request: every return site creates one
\* before it returns, except the request.not_found() ones.
AccessLogRows(resp) == IF resp.status = 404 THEN 0 ELSE 1

ItemsHeader == <<"i", "t", "e", "m", "s", "=", "0", "-", "1">>

\* The row's remote file, NoId when the request never gets to a file.
FileOf(a, allowed) ==
    IF a \in AttIds /\ allowed /\ attachments[a].cloud_sync_status = "synced"
    THEN attachments[a].cloud_file_id ELSE NoId

\* One GET /cloud_storage/file/<a>.
Request(a, allowed, header) ==
    /\ \E env \in IF ReachesDrive(a, allowed) THEN ServeEnvs(header) ELSE {Smooth} :
          LET out == ServeCloudFile(a, allowed, header, env)
              f == FileOf(a, allowed)
          IN  /\ cache' = out.cache
              /\ procs' = IF f # NoId /\ out.written # cache
                          THEN [procs EXCEPT ![f] = now] ELSE procs
              /\ last' = [op |-> "request", att |-> a, allowed |-> allowed, file |-> f,
                          header |-> header, resp |-> out.resp, calls |-> out.calls,
                          logs |-> AccessLogRows(out.resp), env |-> env,
                          before |-> cache, at |-> now]
    /\ UNCHANGED <<attachments, config, drive, folders, auth, now, batch, backoff, sessions>>

InitCache ==
    /\ config = Config(TRUE, TRUE)
    /\ attachments = << SyncedRow(NameInvoicePdf, PayloadA, 1),
                        SyncedRow(NameMidPdf, PayloadMid, 2),
                        Attachment(NameLogoPng, "sale.order", PayloadB, "local") >>
    /\ drive = << RemoteFile(1, NameInvoicePdf, PayloadA, 2, "full"),
                  RemoteFile(1, NameMidPdf, PayloadMid, 2, "full") >>
    /\ folders = InitFolders
    /\ last = NoLast
    /\ auth \in {[NoAuth EXCEPT !.state = st, !.access_token = 1] : st \in {"authorized", "error"}}
    /\ now = 0
    /\ cache = <<Absent, Absent>>
    /\ batch = NoBatch
    /\ backoff = Idle
    /\ sessions = <<>>
    /\ procs = <<NoSize, NoSize>>

NextCache ==
    \/ \E header \in {<<>>, PartHeader, ItemsHeader} : Request(1, TRUE, header)
    \/ \E a \in 2..(Len(attachments) + 1) : Request(a, TRUE, <<>>)
    \/ Request(1, FALSE, <<>>)
    \/ \E d \in {1, CacheTtlSeconds} : Tick(d)

SpecCache == InitCache /\ [][NextCache]_vars

Requested == last.op = "request"

\* C22: the answer is 404 for a missing row, a caller without read access and a
\* row that is not synced; for a synced row it is 200 with the whole content,
\* 206 with a part of it, or 503, and 503 only after the remote failed.
C22_StatusCodes ==
    Requested =>
        IF last.file = NoId THEN last.resp.status = 404
        ELSE /\ last.resp.status \in {200, 206, 503}
             /\ last.resp.status = 200 => last.resp.body = drive[last.file].content
             /\ last.resp.status = 206 => last.resp.content_range # <<>>

\* C23: every request has created exactly one access-log row.
C23_OneAccessLogRow == Requested => last.logs = 1

\* The request found a cache entry of its file whose modification time was no
\* more than the TTL back.
FoundFreshEntry ==
    /\ Requested
    /\ last.file # NoId
    /\ last.before[last.file].present
    /\ last.at - last.before[last.file].mtime <= 86400

\* C28: a request that finds a non-expired cache entry is answered from the
\* entry, with no call to the remote.
C28_FreshEntryNoRemoteCall ==
    FoundFreshEntry => /\ last.calls = {}
                       /\ last.resp.cache_hit
                       /\ last.resp.status \in {200, 206}

C28_Witness ==
    /\ FoundFreshEntry
    /\ last.at > 0
    /\ last.resp.status = 200
    /\ last.resp.body = drive[last.file].content

\* C29: a request is answered from the cache entry only while no more than the
\* TTL has passed since the entry's content was written.
C29_ServedOnlyWithinTtlOfWrite ==
    (Requested /\ last.resp.cache_hit) => last.at - procs[last.file] <= 86400

\* The request had no valid cache entry and got an answer to its ranged GET.
PassedThrough ==
    /\ Requested
    /\ last.file # NoId
    /\ ~FoundFreshEntry
    /\ "http_get_drive_range" \in last.calls
    /\ "download_drive_file" \notin last.calls

\* The request had no valid cache entry and downloaded the whole file.
Downloaded == Requested /\ "download_drive_file" \in last.calls

\* C30: without a valid cache entry and with a Range header, a ranged GET that
\* succeeds is answered with the remote's 200 or 206 and leaves the cache as it
\* was; the whole file is downloaded only after the ranged GET failed.
C30_PassthroughOrDownload ==
    /\ PassedThrough => /\ last.resp.status = (IF last.env.range = "206" THEN 206 ELSE 200)
                        /\ cache = last.before
    /\ (Downloaded /\ last.header # <<>>)
          => ("http_get_drive_range" \in last.calls /\ last.env.range = "error")
    /\ (Downloaded /\ last.resp.status # 503)
          => /\ last.resp.status = 200
             /\ last.resp.body = drive[last.file].content
             /\ last.env.write => /\ cache[last.file].present
                                  /\ cache[last.file].content = drive[last.file].content
                                  /\ cache[last.file].mtime = last.at

\* C30, amended: the same for a Range header that starts with 'bytes='; any
\* other Range value is ignored and the whole file is downloaded.
C30_BytesPassthroughOrDownload ==
    /\ PassedThrough => /\ last.resp.status = (IF last.env.range = "206" THEN 206 ELSE 200)
                        /\ cache = last.before
                        /\ StartsWith(last.header, BytesEq)
    /\ (Downloaded /\ StartsWith(last.header, BytesEq))
          => ("http_get_drive_range" \in last.calls /\ last.env.range = "error")
    /\ (Downloaded /\ last.resp.status # 503)
          => /\ last.resp.status = 200
             /\ last.resp.body = drive[last.file].content
             /\ last.env.write => /\ cache[last.file].present
                                  /\ cache[last.file].content = drive[last.file].content
                                  /\ cache[last.file].mtime = last.at

C30_Witness ==
    /\ PassedThrough
    /\ last.resp.status = 206
    /\ last.before[last.file].present
    /\ last.before[2].present

(***************************************************************************)
(* Properties of restore and migration over unmatched remote files.        *)
(***************************************************************************)
\* C24: a restore that matches records by remote file id and names no default
\* owning entity creates no record: a file that no record references is skipped.
C24_NoOwnerNoRecord ==
    [][(/\ last'.op = "restore"
        /\ last'.params.link_existing
        /\ last'.params.default_res_model = "")
       => Len(attachments') = Len(attachments)]_vars

\* The entries of a migration's report for files that went to the target.
Counted(report) == {i \in 1..Len(report) : report[i].what \in {"migrated", "failed"}}

\* C25: a migration skips every remote file that no row references: the file
\* is left as it was, no copy of it appears in the target, no row is created,
\* and the file does not count towards the migrated total.
C25_UnmatchedSkipped ==
    [][last'.op = "migrate"
       => /\ Len(attachments') = Len(attachments)
          /\ last'.result = Cardinality(Counted(last'.report))
          /\ \A i \in 1..Len(last'.report) :
                Unreferenced(attachments, last'.report[i].src)
                => /\ last'.report[i].what = "unmatched"
                   /\ last'.report[i].dst = NoId
                   /\ drive'[last'.report[i].src] = drive[last'.report[i].src]
                   /\ \A f \in (Len(drive) + 1)..Len(drive') :
                         drive'[f].origin.src # last'.report[i].src]_vars

C25_Witness ==
    /\ last.op = "migrate"
    /\ last.result = 0
    /\ \E i \in 1..Len(last.report) :
          /\ last.report[i].what = "unmatched"
          /\ Unreferenced(attachments, last.report[i].src)
          /\ drive[last.report[i].src].state = "live"

(***************************************************************************)
(* The preconditions of manual_sync and complete_sync.  In this part       *)
(* `config` carries is_active (get_active_config finds the row or          *)
(* nothing), `sessions` holds the cloud_storage.sync.log rows, `procs` the *)
(* loop over the files, and `last` the journal of the invocation: the      *)
(* fault its configuration has, how it ended, the remote calls it made,    *)
(* the log rows it created and the records as they were at its start.      *)
(***************************************************************************)
ConfigRow(is_active, auth_id, extensions) ==
    [is_active |-> is_active, auth_id |-> auth_id, replace_local_with_cloud |-> TRUE,
     delete_local_after_sync |-> FALSE, drive_root_folder_id |-> NoRootFolder,
     extensions |-> extensions]

\* The configuration fault an entry point meets, in the order of the checks.
Fault(cfg, a) ==
    IF ~cfg.is_active THEN "no_config"
    ELSE IF cfg.auth_id = NoId \/ a.state # "authorized" THEN "no_credential"
    ELSE IF cfg.extensions = <<>> THEN "no_file_types"
    ELSE "none"

Journal(op, result, calls, rows) ==
    [op |-> op, fault |-> Fault(config, auth), result |-> result, calls |-> calls,
     rows |-> rows, before |-> attachments]

NoJournal == [op |-> "none", fault |-> "none", result |-> "none", calls |-> {}, rows |-> 0,
              before |-> <<>>]

\* An entry point ends before its loop: nothing but the journal changes.
EndsEarly(op, result, calls) ==
    /\ last' = Journal(op, result, calls, 0)
    /\ procs' = [NoLoop EXCEPT !.pc = "done", !.entry = op]
    /\ UNCHANGED sessions

\* An entry point reaches its loop over the files.
EntersLoop(op, files, calls, rows) ==
    /\ last' = Journal(op, "loop", calls, Len(rows))
    /\ procs' = [NoLoop EXCEPT !.pc = "loop", !.entry = op, !.files = files]
    /\ sessions' = sessions \o rows

\* manual_sync up to its loop.
ManualSync ==
    /\ procs.pc # "loop"
    /\ Len(sessions) < MaxLogs
    /\ Uploads < MaxFiles
    /\ \E service \in BOOLEAN :
          IF ~config.is_active THEN EndsEarly("manual_sync", "raised", {})
          ELSE IF config.auth_id = NoId \/ auth.state # "authorized"
          THEN EndsEarly("manual_sync", "raised", {})
          ELSE IF ~service
          THEN EndsEarly("manual_sync", "raised", {"get_google_drive_service"})
          ELSE LET files_to_sync == GetFilesToSync(attachments, TheRule, config, 0)
               IN  IF files_to_sync = <<>>
                   THEN EndsEarly("manual_sync", "info", {"get_google_drive_service"})
                   ELSE EntersLoop("manual_sync", files_to_sync,
                                   {"get_google_drive_service"}, <<>>)
    /\ UNCHANGED <<attachments, config, drive, folders, auth, now, cache, batch, backoff>>

\* _get_or_create_sync_session: the rows it adds.
GetOrCreateSyncSession(rows) ==
    IF \E i \in 1..Len(rows) : rows[i].sync_type = "complete_batch" /\ rows[i].status = "in_progress"
    THEN <<>>
    ELSE << LogRow("complete_batch", "in_progress", 0) >>

\* complete_sync up to the first batch of the rule.
CompleteSync ==
    /\ procs.pc # "loop"
    /\ Len(sessions) < MaxLogs
    /\ Uploads < MaxFiles
    /\ \E service \in BOOLEAN :
          IF ~config.is_active THEN EndsEarly("complete_sync", "raised", {})
          ELSE IF config.auth_id = NoId \/ auth.state # "authorized"
          THEN EndsEarly("complete_sync", "raised", {})
          ELSE IF config.extensions = <<>> THEN EndsEarly("complete_sync", "raised", {})
          ELSE LET rows == GetOrCreateSyncSession(sessions)
                   files == GetBatchFilesToSync(attachments, TheRule, config.extensions, 50, 0)
               IN  IF ~service
                   THEN /\ last' = Journal("complete_sync", "raised",
                                           {"get_google_drive_service"}, Len(rows))
                        /\ procs' = [NoLoop EXCEPT !.pc = "done", !.entry = "complete_sync"]
                        /\ sessions' = sessions \o rows
                   ELSE IF CountPendingFiles(attachments, TheRule, config.extensions) = 0
                           \/ files = <<>>
                   THEN /\ last' = Journal("complete_sync", "done",
                                           {"get_google_drive_service"}, Len(rows))
                        /\ procs' = [NoLoop EXCEPT !.pc = "done", !.entry = "complete_sync"]
                        /\ sessions' = sessions \o rows
                   ELSE EntersLoop("complete_sync", files, {"get_google_drive_service"}, rows)
    /\ UNCHANGED <<attachments, config, drive, folders, auth, now, cache, batch, backoff>>

\* One turn of either loop: _sync_file on the next record.
SyncNextFile ==
    /\ procs.pc = "loop"
    /\ LET a == procs.files[procs.i]
       IN  \E env \in RemoteEnvs(b64decode(ReadDatas(attachments[a]))) :
              LET out == SyncFile(attachments[a], TheRule, config, env)
                  rows == SyncFileLogRows(a, attachments[a], TheRule, out)
              IN  /\ attachments' = [attachments EXCEPT ![a] = out.att]
                  /\ drive' = out.drive
                  /\ folders' = out.folders
                  /\ sessions' = sessions \o rows
                  /\ last' = [last EXCEPT !.calls = @ \cup out.calls,
                                          !.rows = @ + Len(rows)]
                  /\ procs' = [procs EXCEPT
                                 !.pc = AfterFile(procs.entry, out, procs.i, Len(procs.files)),
                                 !.i = @ + 1]
    /\ UNCHANGED <<config, auth, now, cache, batch, backoff>>

InitFaults ==
    /\ config \in {ConfigRow(act, a, e) : act \in BOOLEAN, a \in {NoId, 1},
                                          e \in {<<>>, <<ExtPdf>>}}
    /\ auth \in {[NoAuth EXCEPT !.access_token = 1, !.refresh_token = 1, !.state = st] :
                    st \in {"authorized", "error"}}
    /\ attachments = << Attachment(NameInvoicePdf, "sale.order", PayloadA, "local"),
                        Attachment(NameContractPdf, "sale.order", PayloadB, "error") >>
    /\ drive = InitDrive
    /\ folders = InitFolders
    /\ last = NoJournal
    /\ now = 0
    /\ cache = <<>>
    /\ batch = NoBatch
    /\ backoff = Idle
    /\ sessions = <<>>
    /\ procs = NoLoop

NextFaults ==
    \/ ManualSync
    \/ CompleteSync
    \/ SyncNextFile

SpecFaults == InitFaults /\ [][NextFaults]_vars

\* C26: an invocation of manual_sync or complete_sync whose configuration has a
\* fault (no active configuration, no authorized credential, no active
\* file-type rule) ends by raising, having made no remote call, created no
\* session or log row and modified no record.
C26_FaultRaisedBeforeWork ==
    (last.op \in {"manual_sync", "complete_sync"} /\ last.fault # "none")
    => /\ last.result = "raised"
       /\ last.calls = {}
       /\ last.rows = 0
       /\ attachments = last.before

(***************************************************************************)
(* Properties of the verification in migrate.                              *)
(***************************************************************************)
\* C39: after a migration with verify_integrity, a record whose file failed
\* the verification still references the source copy: its file id is the
\* source's and its account is not the target.
C39_ReferenceKeptOnMismatch ==
    (last.op = "migrate" /\ last.params.verify_integrity)
    => \A i \in 1..Len(last.report) :
          last.report[i].what = "failed"
          => /\ attachments[last.report[i].att].cloud_file_id = last.report[i].src
             /\ attachments[last.report[i].att].cloud_file_id # last.report[i].dst

(***************************************************************************)
(* The size check before the local payload is cleared.                     *)
(***************************************************************************)
\* C33: with delete_local_after_sync and replace_local_with_cloud set, when the remote reports no MD5 for
\* the uploaded copy and a size different from the size of the original
\* payload, the record ends with status error and keeps its local payload.
C33_PayloadKeptOnSizeMismatch ==
    ( /\ Uploaded
      /\ config.delete_local_after_sync
      /\ config.replace_local_with_cloud
      /\ drive[last.file].md5 = NoMd5
      /\ drive[last.file].size # NoSize
      /\ drive[last.file].size # ContentLen(b64decode(last.before.datas)) )
    => /\ attachments[last.att].cloud_sync_status = "error"
       /\ attachments[last.att].datas = last.before.datas

(***************************************************************************)
(* The totals of a session row.                                            *)
(***************************************************************************)
\* C36: in every state, every session row (automatic or complete_batch, new,
\* resumed, completed or in error) has total_processed equal to total_success
\* plus total_errors.
C36_ProcessedIsSuccessPlusErrors ==
    \A i \in 1..Len(sessions) :
        sessions[i].total_processed = sessions[i].total_success + sessions[i].total_errors

\* A complete_batch session was completed with errors counted, and an
\* automatic session with files processed.
C36_Witness ==
    \E i \in 1..Len(sessions) :
        /\ sessions[i].sync_type = "complete_batch"
        /\ sessions[i].status = "completed"
        /\ sessions[i].total_errors > 0
        /\ sessions[i].total_processed > 0
        /\ \E j \in 1..Len(sessions) : sessions[j].sync_type = "automatic"
                                        /\ sessions[j].status = "completed"
                                        /\ sessions[j].total_processed > 0

(***************************************************************************)
(* The in-memory cache of ir.attachment: _file_cache, a dict from cache    *)
(* key to content and timestamp.  In this part `cache` is the dict in      *)
(* insertion order, `config` the active configuration's two cache fields,  *)
(* `procs` the number of keys made so far and `last` the last call.        *)
(***************************************************************************)
MaxKeys == 12          \* distinct cache keys in one behaviour

MaxClock == 301        \* the clock stops there

\* sorted(...)[:10]: the number of entries a full cache drops at once.
OldestDropped == 10

MemConfig(max_cache_size, cache_timeout_minutes) ==
    [max_cache_size |-> max_cache_size, cache_timeout_minutes |-> cache_timeout_minutes]

MemEntry(key, timestamp) == [key |-> key, content |-> key, timestamp |-> timestamp]

\* The position of entry i in sorted(keys, key=timestamp): the sort is stable.
SortedPosition(c, i) ==
    Cardinality({j \in 1..Len(c) : \/ c[j].timestamp < c[i].timestamp
                                   \/ (c[j].timestamp = c[i].timestamp /\ j < i)}) + 1

\* The dict without its first n entries in timestamp order.
WithoutOldest(c, n) ==
    LET keep == {i \in 1..Len(c) : SortedPosition(c, i) > n}
        kept == SortedSeq(keep)
    IN  [i \in 1..Len(kept) |-> c[kept[i]]]

\* _file_cache[cache_key] = {...}: a key already there keeps its place.
Assign(c, key, t) ==
    IF \E i \in 1..Len(c) : c[i].key = key
    THEN [i \in 1..Len(c) |-> IF c[i].key = key THEN MemEntry(key, t) ELSE c[i]]
    ELSE Append(c, MemEntry(key, t))

\* _store_in_cache
StoreInCache(c, key, cfg, t) ==
    Assign(IF Len(c) >= cfg.max_cache_size THEN WithoutOldest(c, OldestDropped) ELSE c, key, t)

\* _get_from_cache: [content, cache]; content 0 is None.
GetFromCache(c, key, cfg, t) ==
    IF ~\E i \in 1..Len(c) : c[i].key = key THEN [content |-> 0, cache |-> c]
    ELSE LET i == CHOOSE i \in 1..Len(c) : c[i].key = key
             cache_timeout == cfg.cache_timeout_minutes * 60
         IN  IF t - c[i].timestamp > cache_timeout
             THEN [content |-> 0, cache |-> SelectSeq(c, LAMBDA e : e.key # key)]
             ELSE [content |-> c[i].content, cache |-> c]

MemFrame == UNCHANGED <<attachments, drive, folders, auth, batch, backoff, sessions>>

\* A download stores its content: under a new key, or under the first key again.
Store ==
    /\ \E key \in {1, procs + 1} :
          /\ key <= MaxKeys
          /\ cache' = StoreInCache(cache, key, config, now)
          /\ procs' = IF key > procs THEN key ELSE procs
          /\ last' = [op |-> "store", key |-> key, content |-> 0, age |-> 0]
    /\ UNCHANGED <<config, now>>
    /\ MemFrame

\* A read asks the cache for the first or the newest key.
Get ==
    /\ procs > 0
    /\ \E key \in {1, procs} :
          LET out == GetFromCache(cache, key, config, now)
              age == IF \E i \in 1..Len(cache) : cache[i].key = key
                     THEN now - (CHOOSE e \in Range(cache) : e.key = key).timestamp
                     ELSE 0
          IN  /\ cache' = out.cache
              /\ last' = [op |-> "get", key |-> key, content |-> out.content, age |-> age]
    /\ UNCHANGED <<config, now, procs>>
    /\ MemFrame

\* The administrator changes the configured maximum.
SetCacheConfig ==
    /\ \E m \in {1, MaxKeys - 1} :
          /\ config' = MemConfig(m, config.cache_timeout_minutes)
          /\ config' # config
    /\ last' = [op |-> "configure", key |-> 0, content |-> 0, age |-> 0]
    /\ UNCHANGED <<cache, now, procs>>
    /\ MemFrame

\* Time passes.
Wait ==
    /\ \E d \in {300, 301} :
          /\ now + d <= MaxClock
          /\ now' = now + d
    /\ last' = [op |-> "wait", key |-> 0, content |-> 0, age |-> 0]
    /\ UNCHANGED <<cache, config, procs>>
    /\ MemFrame

InitMem ==
    /\ config = MemConfig(MaxKeys - 1, 5)
    /\ attachments = <<>>
    /\ drive = <<>>
    /\ folders = <<>>
    /\ last = [op |-> "none", key |-> 0, content |-> 0, age |-> 0]
    /\ auth = NoAuth
    /\ now = 0
    /\ cache = <<>>
    /\ batch = NoBatch
    /\ backoff = Idle
    /\ sessions = <<>>
    /\ procs = 0

NextMem ==
    \/ Store
    \/ Get
    \/ SetCacheConfig
    \/ Wait

SpecMem == InitMem /\ [][NextMem]_vars

\* C37: after every store the cache holds at most max_cache_size entries,
\* whatever was stored before and however the maximum was changed, and a get
\* never returns an entry older than the configured timeout.
C37_CacheWithinMaximum ==
    /\ last.op = "store" => Len(cache) <= config.max_cache_size
    /\ (last.op = "get" /\ last.content # 0) => last.age <= config.cache_timeout_minutes * 60

(***************************************************************************)
(* The network calls of the drive gateway and the executor.  A remote      *)
(* that is briefly unavailable fails the first invocations of a call with  *)
(* one status and answers the next.  In this part `last` is the call made  *)
(* last: the remote it met and what its caller saw.                        *)
(***************************************************************************)
MaxFailures == 6       \* leading failures of the remote for one call

GatewayCalls == {"upload", "folder_lookup", "folder_create", "folder_list", "metadata_get",
                 "download", "range_download", "delete", "trash"}

\* The calls the code wraps in _execute_with_backoff; the others call
\* .execute() themselves.
ThroughBackoff(call) == call \in {"download", "range_download", "delete", "trash"}

\* The invocations the executor makes against a remote that fails the first
\* `failures` of them with `status`: it goes on while it may retry.
RECURSIVE InvocationsMade(_, _, _, _)
InvocationsMade(status, failures, attempt, max_retries) ==
    IF attempt < failures /\ MayRetry(status, attempt, max_retries)
    THEN InvocationsMade(status, failures, attempt + 1, max_retries)
    ELSE attempt + 1

\* What the caller of a gateway call sees: [ok, invocations].
GatewayOutcome(call, status, failures) ==
    LET n == IF ThroughBackoff(call)
             THEN InvocationsMade(status, failures, 0, DefaultMaxRetries)
             ELSE 1
    IN  [ok |-> n > failures, invocations |-> n]

GatewayCall(call, status, failures) ==
    /\ last' = [op |-> "gateway", call |-> call, status |-> status, failures |-> failures,
                outcome |-> GatewayOutcome(call, status, failures)]
    /\ UNCHANGED <<attachments, config, drive, folders, auth, now, cache, batch, aux>>

NextGateway ==
    \E call \in GatewayCalls, status \in {429, 503, 404}, failures \in 0..MaxFailures :
        GatewayCall(call, status, failures)

SpecGateway == InitToken /\ [][NextGateway]_vars

\* C31: a gateway call that meets a transient failure (429 or 5xx) fewer
\* times than the executor retries succeeds for its caller, whichever call
\* it is: the failure is retried and the caller does not see it.
C31_TransientFailureInvisible ==
    ( /\ last.op = "gateway"
      /\ last.status \in RetriableStatuses
      /\ last.failures <= DefaultMaxRetries )
    => /\ last.outcome.ok
       /\ last.outcome.invocations = last.failures + 1

(***************************************************************************)
(* _get_google_drive_service and the credential checks of its callers.     *)
(* In this part `auth` holds the rows of two accounts (the active          *)
(* configuration names account 1) and `last` the operation that ran last:  *)
(* the accounts it named, their rows before, and its constructions.        *)
(***************************************************************************)
\* What the token endpoint answers to one refresh.
ServiceResponses ==
    {TokenResponse("ok", 2, 0, 600), ErrorResponse("invalid_grant", DescInvalidGrant),
     TokenResponse("server_error", 0, 0, NoSize)}

\* The remote during one construction: the refresh inside _get_valid_token,
\* the test call, the refresh after a failed test call, the second test call.
ServiceEnvs ==
    [valid : ServiceResponses, test1 : BOOLEAN, refresh : ServiceResponses, test2 : BOOLEAN]

Construction(ok, built, test_calls, refreshes, refresh_failed, a) ==
    [ok |-> ok, built |-> built, test_calls |-> test_calls, refreshes |-> refreshes,
     refresh_failed |-> refresh_failed, auth |-> a]

\* A construction that returns the client although the refresh after the
\* failed test call failed.
GetGoogleDriveServiceLenient(a, env, t) ==
    IF a.access_token = 0 THEN Construction(FALSE, FALSE, 0, 0, FALSE, a)
    ELSE LET v == GetValidToken(a, env.valid, t)
         IN  IF v.raised THEN Construction(FALSE, FALSE, 0, 0, v.refreshed, v.auth)
             ELSE IF env.test1 THEN Construction(TRUE, TRUE, 1, 0, FALSE, v.auth)
             ELSE LET r == RefreshAccessToken(v.auth, env.refresh, t)
                  IN  IF ~r.ok THEN Construction(TRUE, TRUE, 1, 1, TRUE, r.auth)
                      ELSE Construction(env.test2, TRUE, 2, 1, FALSE, r.auth)

\* _get_google_drive_service: [ok, built, test_calls, refreshes, refresh_failed, auth];
\* refreshes counts the refresh_access_token calls made after a failed test call.
GetGoogleDriveService(a, env, t) ==
    IF a.access_token = 0 THEN Construction(FALSE, FALSE, 0, 0, FALSE, a)
    ELSE LET v == GetValidToken(a, env.valid, t)
         IN  IF v.raised THEN Construction(FALSE, FALSE, 0, 0, v.refreshed, v.auth)
             ELSE IF env.test1 THEN Construction(TRUE, TRUE, 1, 0, FALSE, v.auth)
             ELSE LET r == RefreshAccessToken(v.auth, env.refresh, t)
                  IN  IF ~r.ok THEN Construction(FALSE, TRUE, 1, 1, TRUE, r.auth)
                      ELSE Construction(env.test2, TRUE, 2, 1, FALSE, r.auth)

\* The operations that take the credential of the active configuration.
ConfigOperations == {"manual_sync", "complete_sync", "automatic_sync", "retrieval",
                     "reconcile", "sync_to_cloud"}

\* The operations that are given an account.
AccountOperations == {"preview_migration", "preview_restore", "restore"}

\* The check an operation makes on a credential before it asks for a client:
\* state = 'authorized', except migrate (exists() only) and sync_to_cloud (none).
PassesCheck(op, a) == op \in {"migrate", "sync_to_cloud"} \/ a.state = "authorized"

\* The constructions an operation makes for the accounts it names, in order;
\* a failed check or a construction that raises ends the operation.
RECURSIVE Constructions(_, _, _, _)
Constructions(op, accounts, envs, rows) ==
    IF accounts = <<>> THEN <<>>
    ELSE LET a == Head(accounts)
         IN  IF ~PassesCheck(op, rows[a]) THEN <<>>
             ELSE LET c == GetGoogleDriveService(rows[a], Head(envs), now)
                      entry == [account |-> a, out |-> c]
                  IN  IF ~c.ok THEN << entry >>
                      ELSE << entry >> \o Constructions(op, Tail(accounts), Tail(envs),
                                                        [rows EXCEPT ![a] = c.auth])

\* One operation from each state of the two credentials.
Operate(op, accounts) ==
    /\ last.op = "none"
    /\ \E envs \in [1..Len(accounts) -> ServiceEnvs] :
          LET made == Constructions(op, accounts, envs, auth)
          IN  /\ auth' = [a \in 1..Len(auth) |->
                            IF \E i \in 1..Len(made) : made[i].account = a
                            THEN made[CHOOSE i \in 1..Len(made) : made[i].account = a].out.auth
                            ELSE auth[a]]
              /\ last' = [op |-> op, accounts |-> accounts, before |-> auth, made |-> made]
    /\ UNCHANGED <<attachments, config, drive, folders, now, cache, batch, aux>>

\* The rows a credential can be in: never authorized, authorized, or left in
\* error or expired by a failed refresh, which keeps the tokens.
CredentialRows ==
    {[NoAuth EXCEPT !.state = "draft"]}
    \cup {[NoAuth EXCEPT !.access_token = 1, !.refresh_token = 1, !.state = st,
                         !.token_expiry = e] :
            st \in {"authorized", "error", "expired"}, e \in {100, 3600}}

InitService ==
    /\ config = Config(TRUE, FALSE)
    /\ attachments = <<>>
    /\ drive = <<>>
    /\ folders = <<>>
    /\ last = [op |-> "none", accounts |-> <<>>, before |-> <<>>, made |-> <<>>]
    /\ auth \in [1..2 -> CredentialRows]
    /\ now = 0
    /\ cache = <<>>
    /\ batch = NoBatch
    /\ backoff = Idle
    /\ sessions = <<>>
    /\ procs = <<>>

NextService ==
    \/ \E op \in ConfigOperations : Operate(op, <<1>>)
    \/ \E op \in AccountOperations, a \in 1..2 : Operate(op, <<a>>)
    \/ \E src \in 1..2 : Operate("migrate", <<src, 3 - src>>)

SpecService == InitService /\ [][NextService]_vars

\* C32: no operation builds a client or makes a remote call with a credential
\* whose state was not authorized when the operation started.
C32_UnauthorizedNeverUsed ==
    \A i \in 1..Len(last.made) :
        last.before[last.made[i].account].state # "authorized"
        => /\ ~last.made[i].out.built
           /\ last.made[i].out.test_calls = 0

\* C34: a construction whose token refresh failed returns no client; a failed
\* first test call is followed by one refresh and, when that succeeded, one
\* more test call; no construction makes more than two test calls.
C34_OneRetryAfterRefresh ==
    \A i \in 1..Len(last.made) :
        LET c == last.made[i].out
        IN  /\ c.refresh_failed => ~c.ok
            /\ c.test_calls <= 2
            /\ c.refreshes <= 1
            /\ c.test_calls = 2 => (c.refreshes = 1 /\ ~c.refresh_failed)
            /\ (c.refreshes = 1 /\ ~c.refresh_failed) => c.test_calls = 2
            /\ c.ok => c.built

C34_Witness ==
    \E i \in 1..Len(last.made) :
        /\ last.made[i].out.ok
        /\ last.made[i].out.test_calls = 2
        /\ last.made[i].out.refreshes = 1
        /\ last.before[last.made[i].account].state = "authorized"

(***************************************************************************)
(* The credential a synced record's content is fetched with.  Both         *)
(* accounts are taken to be authorized.                                    *)
(***************************************************************************)
\* The retrieval endpoint on a cache miss: the active configuration's credential.
RetrievalAuth(att) == config.auth_id

\* C40: the content of a synced record that names its account is fetched with
\* that account's credential, by the retrieval endpoint and by the read path
\* of the attachment, also after a migration moved its file to another account.
C40_RecordCredentialUsed ==
    \A a \in AttIds :
        ( /\ attachments[a].cloud_sync_status = "synced"
          /\ attachments[a].cloud_file_id # NoId
          /\ attachments[a].cloud_auth_id # NoId )
        => /\ ReadAuth(attachments[a]) = attachments[a].cloud_auth_id
           /\ RetrievalAuth(attachments[a]) = attachments[a].cloud_auth_id
           /\ Gettable(drive, attachments[a].cloud_auth_id, attachments[a].cloud_file_id)
              => Gettable(drive, RetrievalAuth(attachments[a]), attachments[a].cloud_file_id)

(***************************************************************************)
(* Concurrent requests of the retrieval endpoint for one remote file, each *)
(* in its own worker.  The steps are the file-system calls of              *)
(* serve_cloud_file: the exists/expired test, the read, open(.., 'wb')     *)
(* which truncates, the write, and the removal by the quota.  In this part *)
(* `procs` is the position of each worker, `cache` the cache directory and *)
(* `last` the response sent last.  No entry expires: the clock stands.     *)
(***************************************************************************)
RaceFile == 1

RaceFrame == UNCHANGED <<attachments, config, drive, folders, auth, now, batch, backoff,
                         sessions>>

Respond(p, body, cache_hit) ==
    last' = [op |-> "respond", proc |-> p, status |-> 200, body |-> body,
             cache_hit |-> cache_hit]

\* os.path.exists(cache_file) and not _is_expired(cache_file)
TestEntry(p) ==
    /\ procs[p] = "idle"
    /\ procs' = [procs EXCEPT ![p] = IF cache[RaceFile].present
                                          /\ ~IsExpired(cache[RaceFile].mtime)
                                     THEN "hit" ELSE "miss"]
    /\ UNCHANGED <<cache, last>>
    /\ RaceFrame

\* open(cache_file, 'rb'), read, touch, respond; a missing file raises and
\* the request goes on to the download.
ReadEntry(p) ==
    /\ procs[p] = "hit"
    /\ IF cache[RaceFile].present
       THEN /\ Respond(p, cache[RaceFile].content, TRUE)
            /\ cache' = [cache EXCEPT ![RaceFile].mtime = now]
            /\ procs' = [procs EXCEPT ![p] = "idle"]
       ELSE /\ procs' = [procs EXCEPT ![p] = "miss"]
            /\ UNCHANGED <<cache, last>>
    /\ RaceFrame

\* _download_drive_file_with_backoff returned the content.
DownloadFile(p) ==
    /\ procs[p] = "miss"
    /\ procs' = [procs EXCEPT ![p] = "downloaded"]
    /\ UNCHANGED <<cache, last>>
    /\ RaceFrame

\* open(cache_file, 'wb'): the file exists, empty, from here on.
OpenEntry(p) ==
    /\ procs[p] = "downloaded"
    /\ cache' = [cache EXCEPT ![RaceFile] = [present |-> TRUE, content |-> EmptyContent,
                                             mtime |-> now]]
    /\ procs' = [procs EXCEPT ![p] = "opened"]
    /\ UNCHANGED last
    /\ RaceFrame

\* out.write(content) and the close of the file.
WriteEntry(p) ==
    /\ procs[p] = "opened"
    /\ cache' = [cache EXCEPT ![RaceFile] = [present |-> TRUE,
                                             content |-> drive[RaceFile].content,
                                             mtime |-> now]]
    /\ procs' = [procs EXCEPT ![p] = "written"]
    /\ UNCHANGED last
    /\ RaceFrame

\* _enforce_cache_quota, which may remove the entry, and the response.
QuotaAndRespond(p) ==
    /\ procs[p] = "written"
    /\ \E removed \in BOOLEAN :
          cache' = IF removed THEN [cache EXCEPT ![RaceFile] = Absent] ELSE cache
    /\ Respond(p, drive[RaceFile].content, FALSE)
    /\ procs' = [procs EXCEPT ![p] = "idle"]
    /\ RaceFrame

InitRace ==
    /\ config = Config(TRUE, TRUE)
    /\ attachments = << SyncedRow(NameInvoicePdf, PayloadA, 1) >>
    /\ drive = << RemoteFile(1, NameInvoicePdf, PayloadA, 2, "full") >>
    /\ folders = InitFolders
    /\ last = [op |-> "none", proc |-> 0, status |-> 0, body |-> EmptyContent,
               cache_hit |-> FALSE]
    /\ auth = [NoAuth EXCEPT !.state = "authorized", !.access_token = 1]
    /\ now = 0
    /\ cache = << Absent >>
    /\ batch = NoBatch
    /\ backoff = Idle
    /\ sessions = <<>>
    /\ procs = [p \in 1..NProcs |-> "idle"]

NextRace ==
    \E p \in 1..NProcs :
        \/ TestEntry(p)
        \/ ReadEntry(p)
        \/ DownloadFile(p)
        \/ OpenEntry(p)
        \/ WriteEntry(p)
        \/ QuotaAndRespond(p)

SpecRace == InitRace /\ [][NextRace]_vars

\* C38: whatever the interleaving of the workers, a 200 response served from
\* the cache carries the complete content of the remote file.
C38_CachedResponseComplete ==
    (last.op = "respond" /\ last.cache_hit /\ last.status = 200)
    => last.body = drive[RaceFile].content

(***************************************************************************)
(* automatic_sync, the cron entry point: the loop over the configurations  *)
(* found, over the active model rules of each and over the batch of each   *)
(* rule, one file a step.  In this part `config` holds the                 *)
(* cloud_storage.config rows, `auth` the state of each account, `sessions` *)
(* the session rows of the run and `procs` the position of the run with    *)
(* what it has entered and attempted so far.                               *)
(***************************************************************************)
InstalledModels == {"sale.order", "res.partner"}

AutoRule(model, is_active) ==
    [is_none |-> FALSE, model_name |-> model, drive_folder_name |-> "Attachments",
     is_active |-> is_active]

AutoConfig(auth_id, is_active, auto_sync, extensions, rules) ==
    [is_active |-> is_active, auto_sync |-> auto_sync, auth_id |-> auth_id,
     replace_local_with_cloud |-> TRUE, delete_local_after_sync |-> FALSE,
     drive_root_folder_id |-> NoRootFolder, extensions |-> extensions,
     model_config_ids |-> rules]

\* search([('is_active', '=', True), ('auto_sync', '=', True)])
AutoConfigs(cfgs) == SortedSeq({c \in 1..Len(cfgs) : cfgs[c].is_active /\ cfgs[c].auto_sync})

\* config.model_config_ids.filtered('is_active')
ActiveRules(cfg) ==
    SortedSeq({r \in 1..Len(cfg.model_config_ids) : cfg.model_config_ids[r].is_active})

\* The mutation of FilesToProcess that forgets the limit.
FilesToProcessAll(pending_count, batch_limit) == pending_count

\* files_to_process = min(pending_count, batch_limit)
FilesToProcess(pending_count, batch_limit) == Min(pending_count, batch_limit)

NoAuto == [pc |-> "idle", batch_limit |-> 0, configs |-> <<>>, c |-> 1, rules |-> <<>>,
           r |-> 1, batch_files |-> <<>>, i |-> 1, session |-> 0,
           total_processed |-> 0, total_success |-> 0, total_errors |-> 0,
           entered |-> {}, failed |-> {}, served |-> {}, rules_entered |-> {},
           rules_failed |-> {}, attempted |-> <<>>]

AutoFrame == UNCHANGED <<config, auth, now, cache, batch, backoff>>

AutoSessionRow(c, status) ==
    [config_id |-> c, status |-> status, total_processed |-> 0, total_success |-> 0,
     total_errors |-> 0]

\* The position after the configuration in hand: the next one, or the end.
NextConfig(run) ==
    [run EXCEPT !.c = @ + 1,
                !.pc = IF run.c + 1 > Len(run.configs) THEN "done" ELSE "config"]

\* automatic_sync up to the loop over the configurations.
StartAutomaticSync(batch_limit) ==
    /\ procs.pc = "idle"
    /\ procs' = [procs EXCEPT !.batch_limit = batch_limit,
                              !.configs = AutoConfigs(config),
                              !.pc = IF AutoConfigs(config) = <<>> THEN "done" ELSE "config"]
    /\ UNCHANGED <<attachments, drive, folders, last, sessions>>
    /\ AutoFrame

\* The body of the loop over the configurations up to the loop over the
\* rules: the two checks, the session row and the gateway, which may raise.
EnterConfig(service_ok) ==
    /\ procs.pc = "config"
    /\ LET c == procs.configs[procs.c]
           cfg == config[c]
           run == [procs EXCEPT !.entered = @ \cup {c}]
       IN  IF cfg.auth_id = NoId \/ auth[cfg.auth_id].state # "authorized"
                \/ cfg.extensions = <<>>
           THEN /\ sessions' = Append(sessions, AutoSessionRow(c, "error"))
                /\ procs' = NextConfig(run)
           ELSE IF ~service_ok
           THEN /\ sessions' = Append(sessions, AutoSessionRow(c, "error"))
                /\ procs' = NextConfig([run EXCEPT !.failed = @ \cup {c}])
           ELSE /\ sessions' = Append(sessions, AutoSessionRow(c, "in_progress"))
                /\ procs' = [run EXCEPT !.pc = "rule", !.rules = ActiveRules(cfg), !.r = 1,
                                        !.session = Len(sessions) + 1,
                                        !.served = @ \cup {c},
                                        !.total_processed = 0, !.total_success = 0,
                                        !.total_errors = 0]
    /\ UNCHANGED <<attachments, drive, folders, last>>
    /\ AutoFrame

\* The body of the loop over the rules up to the loop over the batch.  The
\* count and the search catch what they raise and return 0 and [].
EnterRule(count_ok, search_ok) ==
    /\ procs.pc = "rule"
    /\ procs.r <= Len(procs.rules)
    /\ LET c == procs.configs[procs.c]
           cfg == config[c]
           r == procs.rules[procs.r]
           rule == cfg.model_config_ids[r]
           pending_count == IF count_ok
                            THEN CountPendingFiles(attachments, rule, cfg.extensions) ELSE 0
           batch_files ==
               IF search_ok
               THEN GetBatchFilesToSync(attachments, rule, cfg.extensions,
                                        FilesToProcess(pending_count, procs.batch_limit), 0)
               ELSE <<>>
           run == [procs EXCEPT !.rules_entered = @ \cup {<<c, r>>},
                                !.rules_failed = IF count_ok /\ search_ok THEN @
                                                 ELSE @ \cup {<<c, r>>}]
       IN  IF rule.model_name \notin InstalledModels \/ pending_count = 0
                \/ batch_files = <<>>
           THEN procs' = [run EXCEPT !.r = @ + 1]
           ELSE procs' = [run EXCEPT !.pc = "file", !.batch_files = batch_files, !.i = 1]
    /\ UNCHANGED <<attachments, drive, folders, last, sessions>>
    /\ AutoFrame

\* What the remote does for one file of a run: the folder lookup fails, or
\* the upload is refused, or it is stored intact with full metadata.
AutoEnvs(c) ==
    {env \in SyncEnvs(c) : ~env.up.ok \/ (Healthy(env) /\ env.up.meta = "full")}

\* One file of the batch: _sync_file_automatic and the three counters.
AutoSyncFile ==
    /\ procs.pc = "file"
    /\ procs.i <= Len(procs.batch_files)
    /\ LET c == procs.configs[procs.c]
           r == procs.rules[procs.r]
           a == procs.batch_files[procs.i]
       IN  /\ \E env \in AutoEnvs(b64decode(ReadDatas(attachments[a]))) :
                 LET out == SyncFileAutomatic(attachments[a], config[c].model_config_ids[r],
                                              config[c], env)
                 IN  /\ Uploads < MaxFiles \/ out.drive = drive
                     /\ Apply("sync_file_automatic", a, out, Healthy(env))
                     /\ procs' = [procs EXCEPT
                            !.i = @ + 1,
                            !.total_processed = @ + 1,
                            !.total_success = IF out.status = "success" THEN @ + 1 ELSE @,
                            !.total_errors = IF out.status = "success" THEN @ ELSE @ + 1,
                            !.attempted = Append(@, [config |-> c, rule |-> r, file |-> a])]
    /\ UNCHANGED sessions
    /\ AutoFrame

\* self.env.cr.commit() after the batch; what it raises is caught by the
\* handler of the rule, and the loop goes on with the next rule.
CommitRule(commit_ok) ==
    /\ procs.pc = "file"
    /\ procs.i > Len(procs.batch_files)
    /\ LET c == procs.configs[procs.c]
           r == procs.rules[procs.r]
       IN  procs' = [procs EXCEPT !.pc = "rule", !.r = @ + 1, !.batch_files = <<>>, !.i = 1,
                                  !.rules_failed = IF commit_ok THEN @ ELSE @ \cup {<<c, r>>}]
    /\ UNCHANGED <<attachments, drive, folders, last, sessions>>
    /\ AutoFrame

\* After the last rule: the session row is completed with the counters.
CloseConfig ==
    /\ procs.pc = "rule"
    /\ procs.r > Len(procs.rules)
    /\ sessions' = [sessions EXCEPT ![procs.session] =
                        [@ EXCEPT !.status = "completed",
                                  !.total_processed = procs.total_processed,
                                  !.total_success = procs.total_success,
                                  !.total_errors = procs.total_errors]]
    /\ procs' = NextConfig(procs)
    /\ UNCHANGED <<attachments, drive, folders, last>>
    /\ AutoFrame

AutoRules == << AutoRule("sale.order", TRUE), AutoRule("x.removed", TRUE),
                AutoRule("res.partner", TRUE), AutoRule("res.partner", FALSE) >>

InitAuto ==
    /\ config \in {<< AutoConfig(1, TRUE, TRUE, <<ExtPdf>>, AutoRules),
                      AutoConfig(2, TRUE, auto_sync, ext, AutoRules),
                      AutoConfig(1, TRUE, TRUE, <<ExtPdf>>, SubSeq(AutoRules, 3, 4)) >> :
                      auto_sync \in BOOLEAN, ext \in {<<>>, <<ExtPdf>>}}
    /\ attachments = << Attachment(NameInvoicePdf, "sale.order", PayloadA, "local"),
                        Attachment(NameLogoPng, "sale.order", PayloadB, "local"),
                        Attachment(NameContractPdf, "res.partner", PayloadB, "local"),
                        Attachment(NameInvoicePdf, "res.partner", PayloadB, "local") >>
    /\ drive = InitDrive
    /\ folders = InitFolders
    /\ last = NoLast
    /\ auth \in {<< [state |-> "authorized"], [state |-> s] >> : s \in {"authorized", "expired"}}
    /\ now = 0
    /\ cache = <<>>
    /\ batch = NoBatch
    /\ backoff = Idle
    /\ sessions = <<>>
    /\ procs = NoAuto

NextAuto ==
    \/ \E batch_limit \in 1..MaxBatch : StartAutomaticSync(batch_limit)
    \/ \E service_ok \in BOOLEAN : EnterConfig(service_ok)
    \/ \E count_ok \in BOOLEAN, search_ok \in BOOLEAN : EnterRule(count_ok, search_ok)
    \/ AutoSyncFile
    \/ \E commit_ok \in BOOLEAN : CommitRule(commit_ok)
    \/ CloseConfig

SpecAuto == InitAuto /\ [][NextAuto]_vars

\* The files attempted so far under rule r of configuration c.
AttemptedUnder(c, r) ==
    Len(SelectSeq(procs.attempted, LAMBDA t : t.config = c /\ t.rule = r))

\* C35: one run attempts at most batch_limit files per active model rule of
\* each auto-sync configuration, and whatever failed in a configuration or
\* in a rule, the run ends having entered every active auto-sync
\* configuration and every active rule of each configuration whose gateway
\* was built.
C35_BatchLimitAndIsolation ==
    /\ \A c \in 1..Len(config) : \A r \in 1..Len(config[c].model_config_ids) :
          /\ AttemptedUnder(c, r) <= procs.batch_limit
          /\ AttemptedUnder(c, r) > 0 =>
                /\ config[c].is_active /\ config[c].auto_sync
                /\ config[c].model_config_ids[r].is_active
    /\ procs.pc = "done" =>
          /\ procs.entered = {c \in 1..Len(config) : config[c].is_active /\ config[c].auto_sync}
          /\ \A c \in procs.served :
                \A r \in 1..Len(config[c].model_config_ids) :
                    config[c].model_config_ids[r].is_active => <<c, r>> \in procs.rules_entered

\* A finished run in which the gateway of one configuration failed, a rule of
\* a later configuration failed, and a rule entered after that had exactly
\* batch_limit files attempted while more were pending.
C35_Witness ==
    /\ procs.pc = "done"
    /\ \E c1 \in procs.failed : \E c2 \in procs.served :
          /\ c1 < c2
          /\ \E r1, r2 \in 1..Len(config[c2].model_config_ids) :
                /\ r1 < r2
                /\ <<c2, r1>> \in procs.rules_failed
                /\ AttemptedUnder(c2, r2) = procs.batch_limit
                /\ procs.batch_limit < Cardinality({a \in 1..Len(attachments) :
                        attachments[a].res_model = config[c2].model_config_ids[r2].model_name})

====
